---- MODULE Spec2Model ----
(***************************************************************************)
(* trail: the log-to-aggregate pipeline (Tailer, Backfill, Aggregator,     *)
(* Store, main), modelled from the Go sources.                             *)
(*                                                                         *)
(* Files are byte sequences over a payload alphabet and the newline; a     *)
(* line is the byte sequence between two newlines.  The store is the       *)
(* requests table (count per key) and the log_position table; the section  *)
(* on the Aggregator in full carries all eight aggregate tables, the       *)
(* transactions of flush and of the retention cleanup, and the pool.       *)
(***************************************************************************)
EXTENDS Integers, Sequences, FiniteSets, TLC

(***************************************************************************)
(* Bounds of the model.                                                    *)
(***************************************************************************)
MaxFile == 4          \* bytes one file may hold
MaxInodes == 2        \* inodes the file system hands out
StreamCap == 1        \* capacity of the lines channel (10000 in main)
bufferSizeThreshold == 2   \* lines that force a flush (1000 in the source)
MaxRot == 2           \* highest suffix N of a rotated sibling base.N
MaxRuns == 2          \* process starts
MaxFaults == 1        \* store calls that fail

NL == "\n"
\* What one write of the log producer appends: a parseable line or a blank
\* line (a newline alone, which also ends a fragment); or a fragment.
LineChunks == { <<"a", NL>>, <<NL>> }
FragmentChunks == { <<"a">> }

ActivePath == 0       \* the configured log file; N >= 1 is its sibling base.N
Paths == 0..MaxRot
NoIno == 0            \* no file at a path; also the inode of a position never saved

VARIABLES
    \* the file system
    dir,            \* path -> inode (NoIno: no such file)
    inodes,         \* inode -> content
    nextIno,        \* next inode number to hand out
    \* the store (SQLite)
    requests,       \* requests table: key -> count
    log_position,   \* log_position table: path -> row, or NoRow
    \* main
    mPc,            \* "backfill" | "running" | "shutdown" | "exited"
    cancelled,      \* the root context is done
    run,            \* number of this process start
    \* backfill.Run
    bPc,            \* "off" | "find" | "file" | "scan" | "mark" | "join" | "done"
    pending,        \* rotated files still to import, oldest first
    bfRest,         \* bytes of the current file processFile has not scanned yet
    bfErr,          \* result of Run: "none" (running) | "nil" | "err"
    \* Tailer.Run and its current processTick
    tPc,            \* "off" | "load" | "idle" | "open" | "scan" | "ticked" | "done"
    savedOffset, savedInode, savedSize,
    currentInode, currentSize,
    f,              \* inode of the file processTick has open
    readPos,        \* read offset of f
    scanBuf,        \* bytes the scanner has read and not yet returned
    newOffset, lineCount,
    \* Aggregator (the live one, or the one backfill.Run creates)
    aPc,            \* "off" | "run" | "done"
    aggCtx,         \* context Run was called with: "root" | "background"
    buffer,         \* a.requests: key -> count
    bufferSize,
    aggErr,         \* result of Run: "none" (running) | "nil" | "err"
    \* the lines channel (of main, or of backfill.Run)
    lines, closed,
    \* history
    emitted,        \* every line the Tailer has enqueued, in order
    tick,           \* what the last processTick saw and did
    hist,           \* what has happened so far (faults, drops, rotations, ...)
    \* the store's aggregate tables and the Aggregator's buffers, in full
    tables,         \* the eight aggregate tables: key -> row values
    bufs,           \* the eight buffers of the Aggregator, bufferSize, ipSalt
    input,          \* parsed entries of the stream, and which are still to come
    pool,           \* who holds a connection of the sql.DB pool
    fl,             \* the flush in progress: position, swapped-out buffers, tx
    ret,            \* the retention cleanup in progress: position, cutoff, tx
    flushed,        \* history: the entries buffered, in flight and committed
    \* the Parser main creates
    parser,         \* configured and current format, the lines parsed so far
    \* backfill.Run over a directory listing
    rotated         \* the listing, the files found and pending, the lines sent

fsVars == <<dir, inodes, nextIno>>
storeVars == <<requests, log_position>>
mainVars == <<mPc, cancelled, run>>
bfVars == <<bPc, pending, bfRest, bfErr>>
tailerVars == <<tPc, savedOffset, savedInode, savedSize, currentInode, currentSize,
                f, readPos, scanBuf, newOffset, lineCount>>
aggVars == <<aPc, aggCtx, buffer, bufferSize, aggErr>>
chanVars == <<lines, closed>>
histVars == <<emitted, tick, hist>>
detailVars == <<tables, bufs, input, pool, fl, ret, flushed, parser, rotated>>
vars == <<fsVars, storeVars, mainVars, bfVars, tailerVars, aggVars, chanVars, histVars,
          detailVars>>

(***************************************************************************)
(* Byte sequences and bufio.ScanLines.                                     *)
(***************************************************************************)
Drop(s, n) == IF n >= Len(s) THEN <<>> ELSE SubSeq(s, n + 1, Len(s))
Take(s, n) == IF n >= Len(s) THEN s ELSE SubSeq(s, 1, n)
HasNL(s) == \E i \in 1..Len(s) : s[i] = NL
FirstNL(s) == CHOOSE i \in 1..Len(s) : s[i] = NL /\ \A j \in 1..(i - 1) : s[j] # NL
IsPrefix(s, t) == Len(s) <= Len(t) /\ s = Take(t, Len(s))

\* A run of bytes without a newline that does not fit into the buffer of a
\* bufio.Scanner (bufio.MaxScanTokenSize, 64 KiB, when Buffer is not called).
Long == "L"
TooLong(tok) == \E i \in 1..Len(tok) : tok[i] = Long

\* One call of Scanner.Scan on the bytes data, the input being at EOF after
\* them: the token up to the first newline, or the rest when there is no
\* newline (bufio.ScanLines returns a final unterminated line), or no token;
\* and no token but an error (bufio.ErrTooLong) when the token would not fit
\* into the buffer.
ScanToken(data) ==
    LET tok == IF HasNL(data) THEN Take(data, FirstNL(data) - 1) ELSE data
    IN  IF data = <<>> THEN [ok |-> FALSE, err |-> FALSE, tok |-> <<>>, adv |-> 0]
        ELSE IF TooLong(tok) THEN [ok |-> FALSE, err |-> TRUE, tok |-> <<>>, adv |-> 0]
        ELSE IF HasNL(data) THEN [ok |-> TRUE, err |-> FALSE, tok |-> tok,
                                  adv |-> FirstNL(data)]
        ELSE [ok |-> TRUE, err |-> FALSE, tok |-> data, adv |-> Len(data)]

\* All tokens a scanner returns over data.
RECURSIVE ScanAll(_)
ScanAll(data) ==
    IF ~ScanToken(data).ok THEN <<>>
    ELSE <<ScanToken(data).tok>> \o ScanAll(Drop(data, ScanToken(data).adv))

RECURSIVE NonBlank(_)
NonBlank(ls) ==
    IF ls = <<>> THEN <<>>
    ELSE IF Head(ls) = <<>> THEN NonBlank(Tail(ls))
         ELSE <<Head(ls)>> \o NonBlank(Tail(ls))

(***************************************************************************)
(* The store: log_position.                                                *)
(***************************************************************************)
\* A path without a row.
NoRow == [offset |-> -1, inode |-> -1, size |-> -1]
Zeros == [offset |-> 0, inode |-> 0, size |-> 0]

\* loadPosition: the row of path, zeros when there is none.
loadPosition(lp, path) == IF lp[path] = NoRow THEN Zeros ELSE lp[path]

\* savePosition: a single upsert of the row of path.
savePosition(lp, path, offset, inode, size) ==
    [lp EXCEPT ![path] = [offset |-> offset, inode |-> inode, size |-> size]]

(***************************************************************************)
(* The environment: the log producer and logrotate acting on the active    *)
(* file.                                                                   *)
(***************************************************************************)
notFs == <<detailVars, storeVars, mainVars, bfVars, tailerVars, aggVars, chanVars,
           histVars>>

\* The file is not changed while a tick scans it (the scan is taken as one
\* read of the file), nor before Run has taken up the tick's result.
EnvQuiet == tPc \in {"scan", "ticked"}

Append1(c) ==
    /\ ~EnvQuiet
    /\ dir[ActivePath] # NoIno
    /\ Len(inodes[dir[ActivePath]]) + Len(c) <= MaxFile
    /\ inodes' = [inodes EXCEPT ![dir[ActivePath]] = @ \o c]
    /\ UNCHANGED <<dir, nextIno, notFs>>

\* The producer appends one newline-terminated line (or a blank line).
EnvAppendLine == \E c \in LineChunks : Append1(c)

\* The producer appends bytes that do not end a line.
EnvAppendFragment == \E c \in FragmentChunks : Append1(c)

\* logrotate copytruncate: the active file is truncated in place.
EnvTruncate ==
    /\ ~EnvQuiet
    /\ dir[ActivePath] # NoIno
    /\ inodes[dir[ActivePath]] # <<>>
    /\ inodes' = [inodes EXCEPT ![dir[ActivePath]] = <<>>]
    /\ UNCHANGED <<dir, nextIno, notFs>>

\* The active file is moved away (renamed out of the watched names); its
\* bytes stay readable through a descriptor that is open on it.
EnvRemove ==
    /\ ~EnvQuiet
    /\ dir[ActivePath] # NoIno
    /\ dir' = [dir EXCEPT ![ActivePath] = NoIno]
    /\ inodes' = IF dir[ActivePath] # f
                 THEN [inodes EXCEPT ![dir[ActivePath]] = <<>>] ELSE inodes
    /\ UNCHANGED <<nextIno, notFs>>

\* logrotate between two runs of the process: base.N becomes base.N+1 and the
\* active file base.1 (the producer has not yet reopened the active path).
EnvLogRotate ==
    /\ bPc = "off"
    /\ ~hist.shifted
    /\ dir[ActivePath] # NoIno
    /\ dir[MaxRot] = NoIno
    /\ dir' = [p \in Paths |-> IF p = ActivePath THEN NoIno ELSE dir[p - 1]]
    /\ hist' = [hist EXCEPT !.shifted = TRUE]
    /\ UNCHANGED <<inodes, nextIno, storeVars, mainVars, bfVars, tailerVars, aggVars,
                   chanVars, emitted, tick, detailVars>>

\* logrotate create (or the producer reopening): a new, empty active file.
EnvCreate ==
    /\ dir[ActivePath] = NoIno
    /\ nextIno <= MaxInodes
    /\ dir' = [dir EXCEPT ![ActivePath] = nextIno]
    /\ inodes' = [inodes EXCEPT ![nextIno] = <<>>]
    /\ nextIno' = nextIno + 1
    /\ UNCHANGED notFs

(***************************************************************************)
(* Tailer.                                                                 *)
(***************************************************************************)
notTailer == <<detailVars, dir, nextIno, requests, mainVars, bfVars, aggVars, closed>>

\* A store call of the Tailer may fail while the store is let to fail.
Errs == IF hist.faults > 0 THEN BOOLEAN ELSE {FALSE}
\* The history after a call that failed (e) or not.
Fault(h, e) == IF e THEN [h EXCEPT !.faults = @ - 1, !.faulted = TRUE] ELSE h

\* A tick that would resume at the saved offset in a file with another inode.
StartOffsetKeptOnRotation(curInode, curSize, sOffset, sInode) ==
    IF curInode # sInode THEN sOffset
    ELSE IF curSize < sOffset THEN 0
    ELSE sOffset

\* A tick that would not notice that the file has shrunk below the saved offset.
StartOffsetKeptOnTruncate(curInode, curSize, sOffset, sInode) ==
    IF curInode # sInode THEN 0 ELSE sOffset

\* processTick, lines 87-104: where the tick starts reading.
StartOffset(curInode, curSize, sOffset, sInode) ==
    IF curInode # sInode THEN 0
    ELSE IF curSize < sOffset THEN 0
    ELSE sOffset

\* Which case of that switch a tick is in (history only).
TickKind(curInode, curSize, sOffset, sInode) ==
    IF curInode # sInode THEN "rotation"
    ELSE IF curSize < sOffset THEN "truncate"
    ELSE "resume"

NoTick == [kind |-> "none", prevIno |-> NoIno, ino |-> NoIno, data |-> <<>>,
           start |-> 0, out |-> <<>>, timedOut |-> FALSE]

\* Run, lines 36-47: the position is loaded once before the loop.
TailerLoad ==
    /\ tPc = "load"
    /\ \E err \in Errs :
        IF err
        THEN /\ tPc' = "done"
             /\ hist' = Fault(hist, TRUE)
             /\ UNCHANGED <<savedOffset, savedInode, savedSize>>
        ELSE /\ tPc' = "idle"
             /\ savedOffset' = loadPosition(log_position, ActivePath).offset
             /\ savedInode' = loadPosition(log_position, ActivePath).inode
             /\ savedSize' = loadPosition(log_position, ActivePath).size
             /\ UNCHANGED hist
    /\ UNCHANGED <<notTailer, inodes, log_position, currentInode, currentSize, f, readPos,
                   scanBuf, newOffset, lineCount, lines, emitted, tick>>

\* Run, lines 51-53: the select takes ctx.Done.
TailerStop ==
    /\ tPc = "idle"
    /\ cancelled
    /\ tPc' = "done"
    /\ UNCHANGED <<notTailer, inodes, log_position, savedOffset, savedInode, savedSize,
                   currentInode, currentSize, f, readPos, scanBuf, newOffset, lineCount,
                   lines, histVars>>

\* The locals of processTick are gone when Run goes on to the next tick.
TickReturn ==
    /\ tPc' = "idle"
    /\ currentInode' = 0 /\ currentSize' = 0
    /\ f' = NoIno /\ readPos' = 0 /\ scanBuf' = <<>>
    /\ newOffset' = 0 /\ lineCount' = 0
    /\ tick' = NoTick

\* Run, line 54 and processTick, lines 68-109: stat, and the start offset.
\* No file: the error is logged and the tick retried. Nothing new: nil.
TickStat ==
    /\ tPc = "idle"
    /\ IF dir[ActivePath] = NoIno
       THEN UNCHANGED <<tailerVars, tick>>
       ELSE LET ino == dir[ActivePath]
                size == Len(inodes[ino])
                start == StartOffset(ino, size, savedOffset, savedInode)
            IN  /\ tPc' = IF start >= size THEN "ticked" ELSE "open"
                /\ currentInode' = ino
                /\ currentSize' = size
                /\ newOffset' = start
                /\ lineCount' = 0
                /\ tick' = [NoTick EXCEPT
                              !.kind = TickKind(ino, size, savedOffset, savedInode),
                              !.prevIno = savedInode, !.ino = ino,
                              !.data = inodes[ino], !.start = start]
                /\ UNCHANGED <<savedOffset, savedInode, savedSize, f, readPos, scanBuf>>
    /\ UNCHANGED <<notTailer, inodes, log_position, lines, emitted, hist>>

\* processTick, lines 111-126: open the path and seek.
TickOpen ==
    /\ tPc = "open"
    /\ IF dir[ActivePath] = NoIno
       THEN TickReturn
       ELSE /\ tPc' = "scan"
            /\ f' = dir[ActivePath]
            /\ readPos' = newOffset
            /\ scanBuf' = <<>>
            /\ UNCHANGED <<currentInode, currentSize, newOffset, lineCount, tick>>
    /\ UNCHANGED <<notTailer, inodes, log_position, savedOffset, savedInode, savedSize,
                   lines, emitted, hist>>

\* What scanner.Scan sees: the bytes it holds, after one more read of the
\* file when they hold no complete line.
ScanInput == IF HasNL(scanBuf) THEN scanBuf ELSE scanBuf \o Drop(inodes[f], readPos)
ScanReadPos == IF HasNL(scanBuf) \/ Len(inodes[f]) < readPos THEN readPos ELSE Len(inodes[f])

\* processTick, lines 128-132: a blank line is skipped (the offset is not moved).
TickSkipBlank ==
    /\ tPc = "scan"
    /\ ScanToken(ScanInput).ok
    /\ ScanToken(ScanInput).tok = <<>>
    /\ scanBuf' = Drop(ScanInput, ScanToken(ScanInput).adv)
    /\ readPos' = ScanReadPos
    /\ UNCHANGED <<notTailer, inodes, log_position, tPc, savedOffset, savedInode, savedSize,
                   currentInode, currentSize, f, newOffset, lineCount, lines, histVars>>

\* An offset that would count the bytes of the line alone.
NextOffsetOfLine(offset, line) == Len(line)

\* processTick, line 144: the offset after a line (enqueued or dropped).
NextOffset(offset, line) == offset + Len(line) + 1

\* processTick, lines 135-137 and 144: the line is enqueued.
TickSend ==
    /\ tPc = "scan"
    /\ ScanToken(ScanInput).ok
    /\ ScanToken(ScanInput).tok # <<>>
    /\ Len(lines) < StreamCap
    /\ lines' = Append(lines, ScanToken(ScanInput).tok)
    /\ lineCount' = lineCount + 1
    /\ newOffset' = NextOffset(newOffset, ScanToken(ScanInput).tok)
    /\ scanBuf' = Drop(ScanInput, ScanToken(ScanInput).adv)
    /\ readPos' = ScanReadPos
    /\ emitted' = IF hist.record THEN Append(emitted, ScanToken(ScanInput).tok) ELSE emitted
    /\ tick' = [tick EXCEPT !.out = Append(@, ScanToken(ScanInput).tok)]
    /\ UNCHANGED <<notTailer, inodes, log_position, tPc, savedOffset, savedInode, savedSize,
                   currentInode, currentSize, f, hist>>

\* processTick, lines 138-144: the channel stayed full for 5 s; the line is
\* dropped and the offset moves past it.
TickTimeout ==
    /\ tPc = "scan"
    /\ ScanToken(ScanInput).ok
    /\ ScanToken(ScanInput).tok # <<>>
    /\ Len(lines) = StreamCap
    /\ newOffset' = NextOffset(newOffset, ScanToken(ScanInput).tok)
    /\ scanBuf' = Drop(ScanInput, ScanToken(ScanInput).adv)
    /\ readPos' = ScanReadPos
    /\ tick' = [tick EXCEPT !.timedOut = TRUE]
    /\ UNCHANGED <<notTailer, inodes, log_position, tPc, savedOffset, savedInode, savedSize,
                   currentInode, currentSize, f, lineCount, lines, emitted, hist>>

\* The scanner of the tick is at the end of the file.
TickAtEOF == tPc = "scan" /\ ~ScanToken(ScanInput).ok /\ ~ScanToken(ScanInput).err

\* processTick, lines 147-149, and Run, lines 55-59: the scanner stopped with
\* an error; the tick returns it before the position is saved, and Run goes
\* on with the position it had.
TickScanErr ==
    /\ tPc = "scan" /\ ScanToken(ScanInput).err
    /\ TickReturn
    /\ UNCHANGED <<notTailer, inodes, log_position, savedOffset, savedInode, savedSize,
                   lines, emitted, hist>>

\* processTick, lines 147-159, and Run, lines 55-59: at EOF the position is
\* saved if a line was enqueued; when the save fails the tick returns the
\* error and Run goes on with the position it had.
TickEnd ==
    /\ TickAtEOF
    /\ \E saveErr \in Errs :
        /\ (saveErr => lineCount > 0)
        /\ log_position' =
             IF lineCount > 0 /\ ~saveErr
             THEN savePosition(log_position, ActivePath, newOffset, currentInode, currentSize)
             ELSE log_position
        /\ hist' = Fault(hist, saveErr)
        /\ IF saveErr
           THEN TickReturn
           ELSE /\ tPc' = "ticked"
                /\ UNCHANGED <<currentInode, currentSize, f, readPos, scanBuf, newOffset,
                               lineCount, tick>>
    /\ UNCHANGED <<notTailer, inodes, savedOffset, savedInode, savedSize, lines, emitted>>

\* Run, line 62: the position is loaded again after a tick that returned nil;
\* the error is dropped and the zeros loadPosition returns with it are kept.
Reload(lp, err) == IF err THEN Zeros ELSE loadPosition(lp, ActivePath)

TailerReload ==
    /\ tPc = "ticked"
    /\ TickReturn
    /\ \E err \in Errs :
        /\ savedOffset' = Reload(log_position, err).offset
        /\ savedInode' = Reload(log_position, err).inode
        /\ savedSize' = Reload(log_position, err).size
        /\ hist' = Fault(hist, err)
    \* the bytes of a file that was moved away are freed when it is closed
    /\ inodes' = IF f # NoIno /\ \A p \in Paths : dir[p] # f
                 THEN [inodes EXCEPT ![f] = <<>>] ELSE inodes
    /\ UNCHANGED <<notTailer, log_position, lines, emitted>>

(***************************************************************************)
(* Aggregator.                                                             *)
(***************************************************************************)
notAgg == <<detailVars, fsVars, log_position, mainVars, bfVars, tailerVars, closed, emitted,
            tick>>

\* A store call of a flush may fail while the store is let to fail.
Faults == IF hist.faults > 0 THEN BOOLEAN ELSE {FALSE}

\* The keys of the requests table: what a parseable line is counted under.
Keys == UNION { [1..n -> {"a"}] : n \in 1..MaxFile }
EmptyMap == [k \in Keys |-> 0]

\* Parser.ParseLine: the entry of a line that matches the format, or an error.
ParseLine(line) == [ok |-> line \in Keys, key |-> line]

\* accumulate, lines 214-233 and 307: the requests buffer.
accumulate(buf, key) == [buf EXCEPT ![key] = @ + 1]

\* flush, lines 348-366: the upserts add the buffered counts to the rows.
Upsert(reqs, buf) == [k \in Keys |-> reqs[k] + buf[k]]

ctxDone(ctx) == ctx = "root" /\ cancelled

\* flush, lines 336-346 and 501-504: whether flush returns an error. Nothing
\* buffered: nil before any store call. BeginTx returns the context's error
\* when the context is done; fault is a store error on begin, upsert or commit.
flushErr(n, done, fault) == n > 0 /\ (done \/ fault)

\* flush: the requests table afterwards (the deferred Rollback undoes a
\* transaction that was not committed).
flush(reqs, buf, n, done, fault) ==
    IF n > 0 /\ ~flushErr(n, done, fault) THEN Upsert(reqs, buf) ELSE reqs

\* Run, lines 151-157: the select takes ctx.Done.
AggCancel ==
    /\ aPc = "run"
    /\ ctxDone(aggCtx)
    /\ requests' = flush(requests, buffer, bufferSize, TRUE, FALSE)
    /\ buffer' = EmptyMap
    /\ bufferSize' = 0
    /\ aPc' = "done"
    /\ aggErr' = IF flushErr(bufferSize, TRUE, FALSE) THEN "err" ELSE "nil"
    /\ hist' = [hist EXCEPT !.exit = "ctx"]
    /\ UNCHANGED <<notAgg, aggCtx, lines>>

\* Run, lines 159-163: the flush timer fires.
AggTick ==
    /\ aPc = "run"
    /\ \E fault \in Faults :
        /\ (fault => bufferSize > 0 /\ ~ctxDone(aggCtx))
        /\ requests' = flush(requests, buffer, bufferSize, ctxDone(aggCtx), fault)
        /\ buffer' = EmptyMap
        /\ bufferSize' = 0
        /\ IF flushErr(bufferSize, ctxDone(aggCtx), fault)
           THEN /\ aPc' = "done"
                /\ aggErr' = "err"
                /\ hist' = [Fault(hist, fault) EXCEPT !.exit = "tick"]
           ELSE UNCHANGED <<aPc, aggErr, hist>>
    /\ UNCHANGED <<notAgg, aggCtx, lines>>

\* Run, lines 165 and 175-195: a line is received, parsed and accumulated; at
\* the threshold the buffer is flushed.
AggRecv ==
    /\ aPc = "run"
    /\ lines # <<>>
    /\ lines' = Tail(lines)
    /\ IF ~ParseLine(Head(lines)).ok
       THEN UNCHANGED <<requests, aPc, buffer, bufferSize, aggErr, hist>>
       ELSE LET buf == accumulate(buffer, ParseLine(Head(lines)).key)
                n == bufferSize + 1
            IN  IF n >= bufferSizeThreshold
                THEN \E fault \in Faults :
                       /\ (fault => ~ctxDone(aggCtx))
                       /\ requests' = flush(requests, buf, n, ctxDone(aggCtx), fault)
                       /\ buffer' = EmptyMap
                       /\ bufferSize' = 0
                       /\ IF flushErr(n, ctxDone(aggCtx), fault)
                          THEN /\ aPc' = "done"
                               /\ aggErr' = "err"
                               /\ hist' = [Fault(hist, fault) EXCEPT !.exit = "threshold"]
                          ELSE UNCHANGED <<aPc, aggErr, hist>>
                ELSE /\ buffer' = buf
                     /\ bufferSize' = n
                     /\ UNCHANGED <<requests, aPc, aggErr, hist>>
    /\ UNCHANGED <<notAgg, aggCtx>>

\* Run, lines 165-173: the channel is closed and drained.
AggClosed ==
    /\ aPc = "run"
    /\ lines = <<>>
    /\ closed
    /\ \E fault \in Faults :
        /\ (fault => bufferSize > 0 /\ ~ctxDone(aggCtx))
        /\ requests' = flush(requests, buffer, bufferSize, ctxDone(aggCtx), fault)
        /\ aggErr' = IF flushErr(bufferSize, ctxDone(aggCtx), fault) THEN "err" ELSE "nil"
        /\ hist' = [Fault(hist, fault) EXCEPT !.exit = "closed"]
    /\ buffer' = EmptyMap
    /\ bufferSize' = 0
    /\ aPc' = "done"
    /\ UNCHANGED <<notAgg, aggCtx, lines>>

(***************************************************************************)
(* Backfill.                                                               *)
(***************************************************************************)
notBackfill == <<detailVars, nextIno, mainVars, tailerVars, emitted, tick>>
Rotated == 1..MaxRot

\* findRotatedFiles: the siblings base.N that exist, by N descending.
RECURSIVE findRotatedFiles(_, _)
findRotatedFiles(d, n) ==
    IF n = 0 THEN <<>>
    ELSE (IF d[n] # NoIno THEN <<n>> ELSE <<>>) \o findRotatedFiles(d, n - 1)

\* isImported: a row exists with offset == size > 0.
isImported(lp, path) ==
    /\ lp[path] # NoRow
    /\ lp[path].offset = lp[path].size
    /\ lp[path].size > 0

\* A marker that would record the offset as 0 instead of the size.
markImportedAtZero(lp, path, size) ==
    [lp EXCEPT ![path] = [offset |-> 0, inode |-> 0, size |-> size]]

\* A marker that is not written.
markImportedLost(lp, path, size) == lp

\* markImported: the row (path, size, 0, size).
markImported(lp, path, size) ==
    [lp EXCEPT ![path] = [offset |-> size, inode |-> 0, size |-> size]]

\* Run, lines 366-376: the files not yet imported, in the order found.
Pending(lp, d) ==
    SelectSeq(findRotatedFiles(d, MaxRot), LAMBDA path : ~isImported(lp, path))

\* Run, lines 357-392: find the pending files; with none, return nil; else
\* create the dedicated channel and aggregator and start it.
BfFind ==
    /\ bPc = "find"
    /\ \E err \in Errs :
        /\ IF err \/ Pending(log_position, dir) = <<>>
           THEN /\ bPc' = "done"
                /\ bfErr' = IF err THEN "err" ELSE "nil"
                /\ hist' = [Fault(hist, err) EXCEPT !.found = <<>>]
                /\ UNCHANGED <<pending, aggVars, chanVars>>
           ELSE /\ bPc' = "file"
                /\ pending' = Pending(log_position, dir)
                /\ hist' = [hist EXCEPT !.found = Pending(log_position, dir)]
                /\ lines' = <<>>
                /\ closed' = FALSE
                /\ aPc' = "run"
                /\ aggCtx' = "background"
                /\ buffer' = EmptyMap
                /\ bufferSize' = 0
                /\ aggErr' = "none"
                /\ UNCHANGED bfErr
    /\ UNCHANGED <<notBackfill, dir, inodes, storeVars, bfRest>>

\* Run, lines 395-407, and processFile, lines 520-543: the next pending file
\* is opened; on an error the channel is closed and the aggregator awaited.
BfOpen ==
    /\ bPc = "file"
    /\ pending # <<>>
    /\ \E err \in Errs :
        IF err
        THEN /\ bPc' = "join"
             /\ bfErr' = "err"
             /\ closed' = TRUE
             /\ hist' = Fault(hist, TRUE)
             /\ UNCHANGED bfRest
        ELSE /\ bPc' = "scan"
             /\ bfRest' = inodes[dir[Head(pending)]]
             /\ UNCHANGED <<bfErr, closed, hist>>
    /\ UNCHANGED <<notBackfill, dir, inodes, storeVars, pending, aggVars, lines>>

\* processFile, lines 545-549: a blank line is skipped.
BfSkipBlank ==
    /\ bPc = "scan"
    /\ ScanToken(bfRest).ok
    /\ ScanToken(bfRest).tok = <<>>
    /\ bfRest' = Drop(bfRest, ScanToken(bfRest).adv)
    /\ UNCHANGED <<notBackfill, dir, inodes, storeVars, bPc, pending, bfErr, aggVars,
                   chanVars, hist>>

\* processFile, lines 551-553: the line is enqueued (the send blocks while
\* the channel is full; the context is never done).
BfSend ==
    /\ bPc = "scan"
    /\ ScanToken(bfRest).ok
    /\ ScanToken(bfRest).tok # <<>>
    /\ Len(lines) < StreamCap
    /\ lines' = Append(lines, ScanToken(bfRest).tok)
    /\ bfRest' = Drop(bfRest, ScanToken(bfRest).adv)
    /\ UNCHANGED <<notBackfill, dir, inodes, storeVars, bPc, pending, bfErr, aggVars,
                   closed, hist>>

\* processFile and Run, lines 409-421, with a failure that is passed over:
\* the file is left unmarked and the loop goes on to the next one.
BfMarkPassingOver ==
    /\ bPc = "scan"
    /\ \E err \in Errs :
        IF err
        THEN /\ bPc' = "file"
             /\ bfErr' = "err"
             /\ pending' = Tail(pending)
             /\ hist' = Fault(hist, TRUE)
             /\ UNCHANGED <<log_position, closed>>
        ELSE /\ ~ScanToken(bfRest).ok
             /\ log_position' = markImported(log_position, Head(pending),
                                             Len(inodes[dir[Head(pending)]]))
             /\ pending' = Tail(pending)
             /\ bPc' = "file"
             /\ hist' = [hist EXCEPT !.fed[dir[Head(pending)]] = @ + 1]
             /\ UNCHANGED <<bfErr, closed>>
    /\ UNCHANGED <<notBackfill, dir, inodes, requests, bfRest, aggVars, lines>>

\* processFile, lines 566-571, and Run, lines 409-421: at the end of the file
\* it is marked imported; a scanner, stat or mark error aborts the run.
BfMark ==
    /\ bPc = "scan"
    /\ \E err \in Errs :
        IF err
        THEN /\ bPc' = "join"
             /\ bfErr' = "err"
             /\ closed' = TRUE
             /\ hist' = Fault(hist, TRUE)
             /\ UNCHANGED <<log_position, pending>>
        ELSE /\ ~ScanToken(bfRest).ok
             /\ log_position' = markImported(log_position, Head(pending),
                                             Len(inodes[dir[Head(pending)]]))
             /\ pending' = Tail(pending)
             /\ bPc' = "file"
             /\ hist' = [hist EXCEPT !.fed[dir[Head(pending)]] = @ + 1]
             /\ UNCHANGED <<bfErr, closed>>
    /\ UNCHANGED <<notBackfill, dir, inodes, requests, bfRest, aggVars, lines>>

\* Run, lines 424-425: after the last file the channel is closed.
BfClose ==
    /\ bPc = "file"
    /\ pending = <<>>
    /\ closed' = TRUE
    /\ bPc' = "join"
    /\ UNCHANGED <<notBackfill, dir, inodes, storeVars, pending, bfRest, bfErr, aggVars,
                   lines, hist>>

\* Run, lines 398, 405, 413, 419 and 428-433: the aggregator's result is
\* awaited; an earlier error is returned as it is, else the aggregator's.
BfJoin ==
    /\ bPc = "join"
    /\ aPc = "done"
    /\ bPc' = "done"
    /\ bfErr' = IF bfErr = "err" THEN "err" ELSE aggErr
    /\ UNCHANGED <<notBackfill, dir, inodes, storeVars, pending, bfRest, aggVars, chanVars,
                   hist>>

(***************************************************************************)
(* main and the process.                                                   *)
(***************************************************************************)
\* What the previous backfill.Run returned and left in the store.
NoPrev == [res |-> "none", requests |-> EmptyMap,
           log_position |-> [p \in Paths |-> NoRow]]
\* faults: how many more store calls may fail. record: whether emitted is kept.
\* faulted: a store call has failed. exit: the branch Aggregator.Run returned from.
\* fed: how often backfill has fed each file. found: the pending files of this
\* backfill.Run. shifted: logrotate has renamed the files.
NoHist == [faults |-> 0, record |-> FALSE, faulted |-> FALSE, exit |-> "none",
           fed |-> [i \in 1..MaxInodes |-> 0], found |-> <<>>, prev |-> NoPrev,
           shifted |-> FALSE]

\* The goroutines' state before main has started them.
TailerOff ==
    /\ savedOffset = 0 /\ savedInode = 0 /\ savedSize = 0
    /\ currentInode = 0 /\ currentSize = 0
    /\ f = NoIno /\ readPos = 0 /\ scanBuf = <<>> /\ newOffset = 0 /\ lineCount = 0
AggOff ==
    /\ aggCtx = "root" /\ buffer = EmptyMap /\ bufferSize = 0 /\ aggErr = "none"
BackfillOff ==
    /\ pending = <<>> /\ bfRest = <<>> /\ bfErr = "none"
ResetTailer ==
    /\ savedOffset' = 0 /\ savedInode' = 0 /\ savedSize' = 0
    /\ currentInode' = 0 /\ currentSize' = 0
    /\ f' = NoIno /\ readPos' = 0 /\ scanBuf' = <<>> /\ newOffset' = 0 /\ lineCount' = 0
ResetAgg ==
    /\ aggCtx' = "root" /\ buffer' = EmptyMap /\ bufferSize' = 0 /\ aggErr' = "none"
ResetBackfill ==
    /\ pending' = <<>> /\ bfRest' = <<>> /\ bfErr' = "none"

\* A main that starts the goroutines without waiting for backfill.Run.
MainStartEarly ==
    /\ mPc = "backfill"
    /\ mPc' = "running"
    /\ lines' = <<>>
    /\ closed' = FALSE
    /\ tPc' = "load"
    /\ aPc' = "run"
    /\ ResetAgg
    /\ UNCHANGED <<detailVars, fsVars, storeVars, cancelled, run, bfVars, savedOffset,
                   savedInode, savedSize, currentInode, currentSize, f, readPos, scanBuf,
                   newOffset, lineCount, histVars>>

\* main, lines 52-97: backfill.Run has returned (its error is only logged);
\* the channel and the components are created and the goroutines started.
MainStart ==
    /\ mPc = "backfill"
    /\ bPc = "done"
    /\ mPc' = "running"
    /\ lines' = <<>>
    /\ closed' = FALSE
    /\ tPc' = "load"
    /\ aPc' = "run"
    /\ ResetAgg
    /\ UNCHANGED <<detailVars, fsVars, storeVars, cancelled, run, bfVars, savedOffset,
                   savedInode, savedSize, currentInode, currentSize, f, readPos, scanBuf,
                   newOffset, lineCount, histVars>>

\* main, lines 109-117: INT or TERM arrives; the root context is cancelled.
Signal ==
    /\ mPc = "running"
    /\ mPc' = "shutdown"
    /\ cancelled' = TRUE
    /\ UNCHANGED <<detailVars, fsVars, storeVars, run, bfVars, tailerVars, aggVars, chanVars,
                   histVars>>

\* main, lines 112-113: the server failed; log.Fatalf exits the process at
\* once (no cancel, no deferred call).
ServerFail ==
    /\ mPc = "running"
    /\ mPc' = "exited"
    /\ tPc' = IF tPc = "done" THEN "done" ELSE "off"
    /\ aPc' = IF aPc = "done" THEN "done" ELSE "off"
    /\ UNCHANGED <<detailVars, fsVars, storeVars, cancelled, run, bfVars, savedOffset,
                   savedInode, savedSize, currentInode, currentSize, f, readPos, scanBuf,
                   newOffset, lineCount, aggCtx, buffer, bufferSize, aggErr, chanVars,
                   histVars>>

\* main, lines 119-128: after the 100 ms sleep main returns and the process
\* ends, whatever the goroutines are doing.
MainExit ==
    /\ mPc = "shutdown"
    /\ mPc' = "exited"
    /\ tPc' = IF tPc = "done" THEN "done" ELSE "off"
    /\ aPc' = IF aPc = "done" THEN "done" ELSE "off"
    /\ UNCHANGED <<detailVars, fsVars, storeVars, cancelled, run, bfVars, savedOffset,
                   savedInode, savedSize, currentInode, currentSize, f, readPos, scanBuf,
                   newOffset, lineCount, aggCtx, buffer, bufferSize, aggErr, chanVars,
                   histVars>>

\* The process ends after backfill.Run has returned, to be started again.
BackfillExit ==
    /\ bPc = "done"
    /\ run < MaxRuns
    /\ bPc' = "off"
    /\ aPc' = "off"
    /\ ResetBackfill
    /\ ResetAgg
    /\ lines' = <<>>
    /\ closed' = FALSE
    /\ hist' = [hist EXCEPT !.prev = [res |-> bfErr, requests |-> requests,
                                      log_position |-> log_position]]
    /\ UNCHANGED <<detailVars, fsVars, storeVars, mainVars, tailerVars, emitted, tick>>

\* main, lines 52-55: the process is started again and calls backfill.Run.
BackfillStart ==
    /\ bPc = "off"
    /\ bPc' = "find"
    /\ run' = run + 1
    /\ UNCHANGED <<detailVars, fsVars, storeVars, mPc, cancelled, pending, bfRest, bfErr,
                   tailerVars, aggVars, chanVars, histVars>>

\* The receiving end of the channel (Aggregator.Run, line 165), for the
\* specification of the Tailer alone.
ChanRecv ==
    /\ lines # <<>>
    /\ lines' = Tail(lines)
    /\ UNCHANGED <<detailVars, fsVars, storeVars, mainVars, bfVars, tailerVars, aggVars,
                   closed, histVars>>

\* Tailer.Run is called again (a new process, a new channel) after it returned.
TailerRestart ==
    /\ tPc = "done"
    /\ run < MaxRuns
    /\ run' = run + 1
    /\ tPc' = "load"
    /\ mPc' = "running"
    /\ cancelled' = FALSE
    /\ lines' = <<>>
    /\ ResetTailer
    /\ UNCHANGED <<detailVars, fsVars, storeVars, bfVars, aggVars, closed, histVars>>

(***************************************************************************)
(* The Aggregator and the store in full: the eight buffers and the eight   *)
(* aggregate tables, a flush as a transaction of one statement per table,  *)
(* the retention cleanup, and the pool that hands out the connections.     *)
(***************************************************************************)
MaxLines == 2         \* entries one stream carries
MaxCleanups == 1      \* retention sweeps
MaxOpenConns == 1     \* db.SetMaxOpenConns(1)

\* A parsed line. Method and status are the same in every entry and left
\* out of the request key.
Entry == [Timestamp |-> "10:05", Router |-> "web", Path |-> "/", IP |-> "ip1",
          UserAgent |-> "Mozilla/5.0 (Macintosh) Chrome/143.0", Referer |-> "",
          Bytes |-> 1, DurationMs |-> 5]
Entries == {
    [Entry EXCEPT !.Referer = "https://ref.example/x"],
    [Entry EXCEPT !.Timestamp = "10:55", !.Bytes = 2, !.DurationMs = 20],
    [Entry EXCEPT !.Router = "api"],
    [Entry EXCEPT !.Timestamp = "11:05"],
    [Entry EXCEPT !.Router = "", !.IP = "ip2"],
    [Entry EXCEPT !.UserAgent = "Googlebot/2.1", !.IP = "ip2"] }
Streams == UNION { [1..n -> Entries] : n \in 0..MaxLines }

\* The hour of a timestamp, as a number that orders like its RFC 3339 text.
HourBucket(t) == CASE t \in {"10:05", "10:55"} -> 10 [] OTHER -> 11
isBot(ua) == ua \in {"", "-", "Mozilla/5.0", "Googlebot/2.1"}
\* A classification that looks at the user agent only.
ClassifyByUserAgent(e) == IF isBot(e.UserAgent) THEN "bot" ELSE "human"
Classify(e) ==
    IF e.Router = "" THEN "unrouted" ELSE IF isBot(e.UserAgent) THEN "bot" ELSE "human"
ClassifyUA(ua) ==
    CASE ua \in {"", "-"} -> "unknown"
      [] ua = "Googlebot/2.1" -> "googlebot"
      [] isBot(ua) -> "bot"
      [] OTHER -> "Chrome"
ClassifyBrowser(ua) ==
    CASE ua \in {"", "-"} -> "Unknown"
      [] isBot(ua) -> "Bot"
      [] OTHER -> "Chrome"
ClassifyOS(ua) ==
    CASE ua \in {"", "-"} -> "Other"
      [] ua = "Mozilla/5.0 (Macintosh) Chrome/143.0" -> "macOS"
      [] OTHER -> "Other"
hashIP(ip, salt) == <<salt, ip>>
extractDomain(referer) == IF referer = "https://ref.example/x" THEN "ref.example" ELSE ""
durationBucket(ms) ==
    CASE ms <= 10 -> "0-10ms"
      [] ms <= 50 -> "10-50ms"
      [] ms <= 100 -> "50-100ms"
      [] ms <= 500 -> "100-500ms"
      [] ms <= 1000 -> "500-1000ms"
      [] OTHER -> "1000+ms"
geoReader == TRUE
lookupCountry(ip) == IF ip = "ip1" THEN "DE" ELSE ""

\* A Go map, and a table with a primary key: a function on the keys present.
NoRows == [k \in {} |-> 0]
requestVal(c, b, d) == [Count |-> c, Bytes |-> b, Duration |-> d]
Val(m, k) == IF k \in DOMAIN m THEN m[k] ELSE requestVal(0, 0, 0)
Cnt(m, k) == IF k \in DOMAIN m THEN m[k] ELSE 0
Inc(m, k) == [x \in DOMAIN m \cup {k} |-> Cnt(m, x) + (IF x = k THEN 1 ELSE 0)]
AddReq(m, k, v) ==
    [x \in DOMAIN m \cup {k} |->
        IF x = k THEN requestVal(Val(m, x).Count + v.Count, Val(m, x).Bytes + v.Bytes,
                                 Val(m, x).Duration + v.Duration)
        ELSE m[x]]

\* The router as the parser gave it.
routerAsParsed(e) == e.Router
router(e) == IF e.Router = "" THEN "unrouted" ELSE e.Router
reqKey(e) == <<HourBucket(e.Timestamp), router(e), e.Path>>
visKeyWithoutRouter(e, salt) == <<HourBucket(e.Timestamp), "", hashIP(e.IP, salt)>>
visKey(e, salt) == <<HourBucket(e.Timestamp), router(e), hashIP(e.IP, salt)>>
refKey(e) == <<HourBucket(e.Timestamp), router(e), extractDomain(e.Referer)>>
uaKey(e) == <<HourBucket(e.Timestamp), router(e), ClassifyUA(e.UserAgent)>>
bKey(e) == <<HourBucket(e.Timestamp), router(e), ClassifyBrowser(e.UserAgent)>>
oKey(e) == <<HourBucket(e.Timestamp), router(e), ClassifyOS(e.UserAgent)>>
dhKey(e) == <<HourBucket(e.Timestamp), router(e), durationBucket(e.DurationMs)>>
cKey(e) == <<HourBucket(e.Timestamp), router(e), lookupCountry(e.IP)>>

\* New: empty buffers and a fresh random salt (here: the number of the start).
NewBufs(salt) ==
    [requests |-> NoRows, visitors |-> {}, referrers |-> NoRows, userAgents |-> NoRows,
     countries |-> NoRows, browsers |-> NoRows, osStats |-> NoRows,
     durationHist |-> NoRows, bufferSize |-> 0, ipSalt |-> salt]

accumulateEntry(a, e) ==
    [requests |-> AddReq(a.requests, reqKey(e), requestVal(1, e.Bytes, e.DurationMs)),
     visitors |-> IF Classify(e) = "human" THEN a.visitors \cup {visKey(e, a.ipSalt)}
                  ELSE a.visitors,
     referrers |-> IF e.Referer # "" /\ extractDomain(e.Referer) # ""
                   THEN Inc(a.referrers, refKey(e)) ELSE a.referrers,
     userAgents |-> Inc(a.userAgents, uaKey(e)),
     countries |-> IF geoReader /\ lookupCountry(e.IP) # ""
                   THEN Inc(a.countries, cKey(e)) ELSE a.countries,
     browsers |-> Inc(a.browsers, bKey(e)),
     osStats |-> Inc(a.osStats, oKey(e)),
     durationHist |-> Inc(a.durationHist, dhKey(e)),
     bufferSize |-> a.bufferSize + 1,
     ipSalt |-> a.ipSalt]

EmptyTables ==
    [requests |-> NoRows, visitors |-> {}, referrers |-> NoRows, user_agents |-> NoRows,
     countries |-> NoRows, browsers |-> NoRows, os_stats |-> NoRows,
     duration_hist |-> NoRows]

\* ON CONFLICT ... DO UPDATE SET count = count + excluded.count (and bytes,
\* duration); ON CONFLICT DO NOTHING for visitors.
UpsertRequestsReplacing(t, m) == [k \in DOMAIN t \cup DOMAIN m |->
                                    IF k \in DOMAIN m THEN m[k] ELSE t[k]]
UpsertRequests(t, m) ==
    [k \in DOMAIN t \cup DOMAIN m |->
        requestVal(Val(t, k).Count + Val(m, k).Count, Val(t, k).Bytes + Val(m, k).Bytes,
                   Val(t, k).Duration + Val(m, k).Duration)]
UpsertCountsReplacing(t, m) == [k \in DOMAIN t \cup DOMAIN m |->
                                  IF k \in DOMAIN m THEN m[k] ELSE t[k]]
UpsertCounts(t, m) == [k \in DOMAIN t \cup DOMAIN m |-> Cnt(t, k) + Cnt(m, k)]
InsertVisitors(t, m) == t \cup m

\* The statements of flush, in the order it sends them. The last four are
\* sent only for a buffer that holds something.
Statements == 8
Sent(sw, i) ==
    CASE i = 5 -> sw.countries # NoRows
      [] i = 6 -> sw.browsers # NoRows
      [] i = 7 -> sw.osStats # NoRows
      [] i = 8 -> sw.durationHist # NoRows
      [] OTHER -> TRUE
Exec(t, sw, i) ==
    CASE i = 1 -> [t EXCEPT !.requests = UpsertRequests(@, sw.requests)]
      [] i = 2 -> [t EXCEPT !.visitors = InsertVisitors(@, sw.visitors)]
      [] i = 3 -> [t EXCEPT !.referrers = UpsertCounts(@, sw.referrers)]
      [] i = 4 -> [t EXCEPT !.user_agents = UpsertCounts(@, sw.userAgents)]
      [] i = 5 -> [t EXCEPT !.countries = UpsertCounts(@, sw.countries)]
      [] i = 6 -> [t EXCEPT !.browsers = UpsertCounts(@, sw.browsers)]
      [] i = 7 -> [t EXCEPT !.os_stats = UpsertCounts(@, sw.osStats)]
      [] i = 8 -> [t EXCEPT !.duration_hist = UpsertCounts(@, sw.durationHist)]

\* DELETE FROM <table> WHERE hour < cutoff, in the order cleanup sends them.
\* A DELETE that also takes the rows of the cutoff hour itself.
OlderOrAt(m, cutoff) == [k \in { x \in DOMAIN m : x[1] > cutoff } |-> m[k]]
Older(m, cutoff) == [k \in { x \in DOMAIN m : x[1] >= cutoff } |-> m[k]]
DeleteRequestsOnly(t, cutoff, i) ==
    IF i = 1 THEN [t EXCEPT !.requests = Older(@, cutoff)] ELSE t
Delete(t, cutoff, i) ==
    CASE i = 1 -> [t EXCEPT !.requests = Older(@, cutoff)]
      [] i = 2 -> [t EXCEPT !.visitors = { x \in @ : x[1] >= cutoff }]
      [] i = 3 -> [t EXCEPT !.referrers = Older(@, cutoff)]
      [] i = 4 -> [t EXCEPT !.user_agents = Older(@, cutoff)]
      [] i = 5 -> [t EXCEPT !.countries = Older(@, cutoff)]
      [] i = 6 -> [t EXCEPT !.browsers = Older(@, cutoff)]
      [] i = 7 -> [t EXCEPT !.os_stats = Older(@, cutoff)]
      [] i = 8 -> [t EXCEPT !.duration_hist = Older(@, cutoff)]
Cutoffs == {11}

\* The database as a transaction sees it, and what is left of the
\* transaction's work when it is rolled back.
Db == [tables |-> tables, log_position |-> log_position]
RollbackKeepingWork(db, work) == work
Rollback(db, work) == db

\* The pool hands out a connection while fewer than MaxOpenConns are held.
connAlwaysFree(p) == TRUE
connFree(p) == Cardinality(p) < MaxOpenConns

NoWork == <<>>
NoFlush == [pc |-> "off", step |-> 0, swapped |-> <<>>, work |-> NoWork]
NoCleanup == [pc |-> "idle", step |-> 0, cutoff |-> 0, work |-> NoWork, n |-> 0]
NoFlushed == [cur |-> <<>>, out |-> <<>>, done |-> <<>>, last |-> "none", at |-> 0,
              pos |-> NoRow]
\* The store before anything is written, with no Aggregator and no Cleaner
\* of this section running.
DetailOff ==
    /\ tables = EmptyTables /\ bufs = <<>> /\ input = <<>>
    /\ pool = {} /\ fl = <<>> /\ ret = <<>> /\ flushed = <<>> /\ parser = <<>> /\ rotated = <<>>

notDetail == <<fsVars, requests, mPc, cancelled, bfVars, tailerVars, aggCtx, buffer,
               bufferSize, chanVars, emitted, tick, parser, rotated>>

\* flush, up to BeginTx: the buffers b are swapped out for empty ones, and
\* with no line among them flush returns.
Swap(b, g) ==
    /\ bufs' = NewBufs(b.ipSalt)
    /\ IF b.bufferSize = 0
       THEN fl' = NoFlush /\ flushed' = g
       ELSE /\ fl' = [NoFlush EXCEPT !.pc = "begin", !.swapped = b]
            /\ flushed' = [g EXCEPT !.out = g.cur, !.cur = <<>>]

\* Run with a flush only above the threshold.
AggLineAboveThreshold ==
    /\ aPc = "run" /\ fl.pc = "off" /\ input.next <= Len(input.all)
    /\ LET e == input.all[input.next]
           b == accumulateEntry(bufs, e)
           g == [flushed EXCEPT !.cur = Append(@, e), !.last = "none"]
       IN  /\ input' = [input EXCEPT !.next = @ + 1]
           /\ IF b.bufferSize > bufferSizeThreshold
              THEN Swap(b, g)
              ELSE bufs' = b /\ fl' = fl /\ flushed' = g
    /\ UNCHANGED <<notDetail, tables, log_position, pool, ret, aPc, aggErr, hist, run>>

\* Run takes a line off the stream, accumulates it, and flushes at the
\* threshold.
AggLine ==
    /\ aPc = "run" /\ fl.pc = "off" /\ input.next <= Len(input.all)
    /\ LET e == input.all[input.next]
           b == accumulateEntry(bufs, e)
           g == [flushed EXCEPT !.cur = Append(@, e), !.last = "none"]
       IN  /\ input' = [input EXCEPT !.next = @ + 1]
           /\ IF b.bufferSize >= bufferSizeThreshold
              THEN Swap(b, g)
              ELSE bufs' = b /\ fl' = fl /\ flushed' = g
    /\ UNCHANGED <<notDetail, tables, log_position, pool, ret, aPc, aggErr, hist, run>>

\* Run's ticker fires.
AggFlushTick ==
    /\ aPc = "run" /\ fl.pc = "off"
    /\ Swap(bufs, [flushed EXCEPT !.last = "none"])
    /\ UNCHANGED <<notDetail, tables, log_position, input, pool, ret, aPc, aggErr, hist,
                   run>>

\* flush returns an error from its statement number at (0: BeginTx), and Run
\* returns it.
FlushFail(at) ==
    /\ fl' = NoFlush
    /\ aPc' = "done" /\ aggErr' = "err"
    /\ flushed' = [flushed EXCEPT !.out = <<>>, !.last = "failed", !.at = at]

\* The deferred tx.Rollback of a transaction that ends without a commit.
Undo(work) ==
    LET db == Rollback(Db, work)
    IN  tables' = db.tables /\ log_position' = db.log_position

FlushBegin ==
    /\ fl.pc = "begin" /\ connFree(pool)
    /\ \E err \in Errs :
        /\ hist' = Fault(hist, err)
        /\ IF err
           THEN FlushFail(0) /\ UNCHANGED pool
           ELSE /\ pool' = pool \cup {"flush"}
                /\ fl' = [fl EXCEPT !.pc = "exec", !.step = 1, !.work = Db]
                /\ UNCHANGED <<aPc, aggErr, flushed>>
    /\ UNCHANGED <<notDetail, tables, log_position, bufs, input, ret, run>>

FlushExec ==
    /\ fl.pc = "exec"
    /\ \E err \in (IF Sent(fl.swapped, fl.step) THEN Errs ELSE {FALSE}) :
        /\ hist' = Fault(hist, err)
        /\ IF err
           THEN /\ Undo(fl.work)
                /\ pool' = pool \ {"flush"}
                /\ FlushFail(fl.step)
           ELSE /\ fl' = [fl EXCEPT !.work.tables = Exec(@, fl.swapped, fl.step),
                                    !.step = @ + 1,
                                    !.pc = IF fl.step = Statements THEN "commit" ELSE @]
                /\ UNCHANGED <<tables, log_position, pool, aPc, aggErr, flushed>>
    /\ UNCHANGED <<notDetail, bufs, input, ret, run>>

FlushCommit ==
    /\ fl.pc = "commit"
    /\ \E err \in Errs :
        /\ hist' = Fault(hist, err)
        /\ IF err
           THEN /\ Undo(fl.work)
                /\ FlushFail(fl.step)
           ELSE /\ tables' = fl.work.tables
                /\ log_position' = fl.work.log_position
                /\ fl' = NoFlush
                /\ flushed' = [flushed EXCEPT
                                 !.done = Append(@, [salt |-> fl.swapped.ipSalt,
                                                     entries |-> flushed.out,
                                                     bufs |-> fl.swapped]),
                                 !.out = <<>>, !.last = "committed"]
                /\ UNCHANGED <<aPc, aggErr>>
    /\ pool' = pool \ {"flush"}
    /\ UNCHANGED <<notDetail, bufs, input, ret, run>>

\* The process is started again after the Aggregator has returned: New.
AggNew ==
    /\ aPc = "done" /\ run < MaxRuns /\ pool = {} /\ ret.pc = "idle"
    /\ run' = run + 1
    /\ aPc' = "run" /\ aggErr' = "none"
    /\ bufs' = NewBufs(run + 1)
    /\ flushed' = [flushed EXCEPT !.last = "none"]
    /\ UNCHANGED <<notDetail, tables, log_position, input, pool, fl, ret, hist>>

\* Cleaner.cleanup: one transaction of a DELETE per table.
CleanBegin ==
    /\ ret.pc = "idle" /\ ret.n < MaxCleanups /\ connFree(pool)
    /\ \E cutoff \in Cutoffs, err \in Errs :
        /\ hist' = Fault(hist, err)
        /\ IF err
           THEN ret' = [ret EXCEPT !.n = @ + 1] /\ UNCHANGED pool
           ELSE /\ pool' = pool \cup {"cleanup"}
                /\ ret' = [pc |-> "exec", step |-> 1, cutoff |-> cutoff, work |-> Db,
                           n |-> ret.n + 1]
    /\ UNCHANGED <<notDetail, tables, log_position, bufs, input, fl, flushed, aPc, aggErr,
                   run>>

\* A sweep whose failing statement would end Cleaner.Run.
CleanExecStopping ==
    /\ ret.pc = "exec"
    /\ \E err \in Errs :
        /\ hist' = Fault(hist, err)
        /\ IF err
           THEN /\ Undo(ret.work)
                /\ pool' = pool \ {"cleanup"}
                /\ ret' = [NoCleanup EXCEPT !.n = ret.n, !.pc = "returned"]
           ELSE /\ ret' = [ret EXCEPT !.work.tables = Delete(@, ret.cutoff, ret.step),
                                      !.step = @ + 1,
                                      !.pc = IF ret.step = Statements THEN "commit" ELSE @]
                /\ UNCHANGED <<tables, log_position, pool>>
    /\ UNCHANGED <<notDetail, bufs, input, fl, flushed, aPc, aggErr, run>>

CleanExec ==
    /\ ret.pc = "exec"
    /\ \E err \in Errs :
        /\ hist' = Fault(hist, err)
        /\ IF err
           THEN /\ Undo(ret.work)
                /\ pool' = pool \ {"cleanup"}
                /\ ret' = [NoCleanup EXCEPT !.n = ret.n]
           ELSE /\ ret' = [ret EXCEPT !.work.tables = Delete(@, ret.cutoff, ret.step),
                                      !.step = @ + 1,
                                      !.pc = IF ret.step = Statements THEN "commit" ELSE @]
                /\ UNCHANGED <<tables, log_position, pool>>
    /\ UNCHANGED <<notDetail, bufs, input, fl, flushed, aPc, aggErr, run>>

CleanCommit ==
    /\ ret.pc = "commit"
    /\ \E err \in Errs :
        /\ hist' = Fault(hist, err)
        /\ IF err
           THEN Undo(ret.work)
           ELSE tables' = ret.work.tables /\ log_position' = ret.work.log_position
    /\ pool' = pool \ {"cleanup"}
    /\ ret' = [NoCleanup EXCEPT !.n = ret.n]
    /\ UNCHANGED <<notDetail, bufs, input, fl, flushed, aPc, aggErr, run>>

\* The Tailer's savePosition at the end of a tick that enqueued a line: one
\* statement outside any transaction, on a connection of the pool.
TailerSave ==
    /\ connFree(pool)
    /\ loadPosition(log_position, ActivePath).offset < MaxFile
    /\ \E err \in Errs :
        /\ hist' = Fault(hist, err)
        /\ IF err
           THEN UNCHANGED <<log_position, flushed>>
           ELSE LET offset == loadPosition(log_position, ActivePath).offset + 1
                IN  /\ log_position' =
                           savePosition(log_position, ActivePath, offset, 1, offset)
                    /\ flushed' = [flushed EXCEPT
                                     !.pos = [offset |-> offset, inode |-> 1,
                                              size |-> offset]]
    /\ UNCHANGED <<notDetail, tables, bufs, input, pool, fl, ret, aPc, aggErr, run>>

(***************************************************************************)
(* The Tailer on a file that is appended to and replaced (moved away, then *)
(* created anew), with a receiver that may let an enqueue time out.        *)
(***************************************************************************)
InitFs ==
    /\ dir = [p \in Paths |-> IF p = ActivePath THEN 1 ELSE NoIno]
    /\ inodes = [i \in 1..MaxInodes |-> <<>>]
    /\ nextIno = 2

InitTailerWith(h) ==
    /\ InitFs
    /\ requests = EmptyMap
    /\ log_position = [p \in Paths |-> NoRow]
    /\ mPc = "running" /\ cancelled = FALSE /\ run = 1
    /\ bPc = "off" /\ BackfillOff
    /\ tPc = "load" /\ TailerOff
    /\ aPc = "off" /\ AggOff
    /\ lines = <<>> /\ closed = FALSE
    /\ DetailOff
    /\ emitted = <<>> /\ tick = NoTick /\ hist = h

InitTailer == InitTailerWith(NoHist)

NextTailer ==
    \/ EnvAppendLine \/ EnvAppendFragment \/ EnvRemove \/ EnvCreate
    \/ TailerLoad \/ TickStat \/ TickOpen
    \/ TickSkipBlank \/ TickSend \/ TickTimeout \/ TickEnd \/ TailerReload
    \/ ChanRecv

SpecTailer == InitTailer /\ [][NextTailer]_vars

(***************************************************************************)
(* The Tailer on a file that is appended to and truncated in place.        *)
(***************************************************************************)
NextTruncate ==
    \/ EnvAppendLine \/ EnvAppendFragment \/ EnvTruncate
    \/ TailerLoad \/ TickStat \/ TickOpen
    \/ TickSkipBlank \/ TickSend \/ TickEnd \/ TailerReload
    \/ ChanRecv

SpecTruncate == InitTailer /\ [][NextTruncate]_vars

(***************************************************************************)
(* The Tailer on a file that is only appended to, line by line, with a     *)
(* receiver that takes every line in time and a store that does not fail.  *)
(***************************************************************************)
InitAppend == InitTailerWith([NoHist EXCEPT !.record = TRUE])

NextAppend ==
    \/ EnvAppendLine
    \/ TailerLoad \/ TailerStop \/ TickStat \/ TickOpen
    \/ TickSkipBlank \/ TickSend \/ TickEnd \/ TailerReload
    \/ ChanRecv \/ Signal \/ TailerRestart

SpecAppend == InitAppend /\ [][NextAppend]_vars

(***************************************************************************)
(* Properties of the Tailer.                                               *)
(***************************************************************************)
\* The bytes of data up to and including its last newline.
LastNL(s) == IF HasNL(s)
             THEN CHOOSE i \in 1..Len(s) : s[i] = NL /\ \A j \in (i + 1)..Len(s) : s[j] # NL
             ELSE 0
CompletePart(s) == Take(s, LastNL(s))
EndsComplete(s) == CompletePart(s) = s
NoBlankLine(s) == NonBlank(ScanAll(s)) = ScanAll(s)

\* processTick has returned nil and Run has not yet gone on.
Ticked == tPc = "ticked"
\* The tick read the file it had stat'ed, as it was then, and no enqueue timed out.
CleanTick ==
    /\ Ticked
    /\ ~tick.timedOut
    /\ dir[ActivePath] = tick.ino
    /\ inodes[tick.ino] = tick.data
\* The persisted position of the active file.
Row == log_position[ActivePath]

\* C6: on a file that is only appended to, in newline-terminated lines (blank
\* lines among them), with no enqueue timing out, the lines enqueued over all
\* ticks and restarts of the Tailer are the non-blank lines of the file, each
\* once and in order: what has been enqueued is always a prefix of them.
C6_EachLineOnceInOrder ==
    IsPrefix(emitted, NonBlank(ScanAll(inodes[dir[ActivePath]])))

\* C7: a tick enqueues only complete lines: after a tick that started at a
\* line boundary, what it enqueued is the non-blank newline-terminated lines
\* from its start offset, and the position it persisted is not past the last
\* newline of the file.
C7_OnlyCompleteLines ==
    (CleanTick /\ tick.start <= LastNL(tick.data)
        /\ (tick.start = 0 \/ tick.data[tick.start] = NL))
    => /\ tick.out = NonBlank(ScanAll(CompletePart(Drop(tick.data, tick.start))))
       /\ (lineCount > 0 => Row.offset <= LastNL(tick.data))

\* A tick that found another inode at the path than the one of the persisted
\* position, the new file holding complete lines only.
RotationTick ==
    /\ CleanTick
    /\ tick.kind = "rotation"
    /\ tick.prevIno # NoIno
    /\ EndsComplete(tick.data)

RotationRead ==
    /\ tick.start = 0
    /\ tick.out = NonBlank(ScanAll(tick.data))
    /\ Row.inode = tick.ino
    /\ Row.size = Len(tick.data)
    /\ (NoBlankLine(tick.data) => Row.offset = Len(tick.data))

\* C8 as stated: after N lines were consumed and their position persisted, and
\* the file was replaced by a new one (another inode) holding M lines, the
\* next tick enqueues exactly those M lines from offset 0, in order, and
\* persists the new inode with the new offset.
C8_RotationAnyM == RotationTick => RotationRead

\* C8, for M >= 1 non-blank lines: the tick after the replacement enqueues
\* exactly the lines of the new file from offset 0, in order and none of the
\* old file, and persists the new inode with the new offset (the size of the
\* new file when it holds no blank line).
C8_Rotation ==
    (RotationTick /\ NonBlank(ScanAll(tick.data)) # <<>>) => RotationRead

C8_Witness ==
    /\ RotationTick
    /\ Len(tick.out) >= 1
    /\ RotationRead
    /\ NoBlankLine(tick.data)

\* C9: after a copytruncate (same inode, size below the persisted offset) the
\* next tick enqueues exactly the M lines written since, from offset 0.
C9_CopyTruncate ==
    (CleanTick /\ tick.kind = "truncate" /\ EndsComplete(tick.data))
    => /\ tick.start = 0
       /\ tick.out = NonBlank(ScanAll(tick.data))

C9_Witness ==
    /\ CleanTick
    /\ tick.kind = "truncate"
    /\ EndsComplete(tick.data)
    /\ tick.start = 0
    /\ Len(tick.out) >= 1
    /\ tick.out = NonBlank(ScanAll(tick.data))

(***************************************************************************)
(* The pipeline of one process: backfill (no rotated file), then the       *)
(* Tailer and the Aggregator on the active file, until a signal or a       *)
(* server failure ends the process. The Aggregator takes each line in time *)
(* (no enqueue times out); store calls may fail.                           *)
(***************************************************************************)
Init ==
    /\ InitFs
    /\ requests = EmptyMap
    /\ log_position = [p \in Paths |-> NoRow]
    /\ mPc = "backfill" /\ cancelled = FALSE /\ run = 1
    /\ bPc = "find" /\ BackfillOff
    /\ tPc = "off" /\ TailerOff
    /\ aPc = "off" /\ AggOff
    /\ lines = <<>> /\ closed = FALSE
    /\ DetailOff
    /\ emitted = <<>> /\ tick = NoTick
    /\ hist = [NoHist EXCEPT !.faults = MaxFaults]

Next ==
    \/ EnvAppendLine
    \/ BfFind \/ MainStart \/ Signal \/ ServerFail \/ MainExit
    \/ TailerLoad \/ TailerStop \/ TickStat \/ TickOpen
    \/ TickSkipBlank \/ TickSend \/ TickEnd \/ TailerReload
    \/ AggCancel \/ AggTick \/ AggRecv

Spec == Init /\ [][Next]_vars

(***************************************************************************)
(* Backfill over the rotated siblings, run at each start of the process,   *)
(* with logrotate possibly renaming the files between two starts.          *)
(***************************************************************************)
\* The files the producer can have written: complete lines only.
Bytes == UNION { [1..n -> {"a", NL}] : n \in 0..MaxFile }
Files == { s \in Bytes : s = <<>> \/ s[Len(s)] = NL }

InitBackfill ==
    /\ \E c0 \in Files \ {<<>>}, c1 \in Files, has1 \in BOOLEAN :
        /\ dir = [p \in Paths |-> IF p = ActivePath THEN 1
                                  ELSE IF p = 1 /\ has1 THEN 2 ELSE NoIno]
        /\ inodes = [i \in 1..MaxInodes |->
                        IF i = 1 THEN c0 ELSE IF i = 2 /\ has1 THEN c1 ELSE <<>>]
        /\ (~has1 => c1 = <<>>)
    /\ nextIno = 3
    /\ requests = EmptyMap
    /\ log_position = [p \in Paths |-> NoRow]
    /\ mPc = "backfill" /\ cancelled = FALSE /\ run = 1
    /\ bPc = "find" /\ BackfillOff
    /\ tPc = "off" /\ TailerOff
    /\ aPc = "off" /\ AggOff
    /\ lines = <<>> /\ closed = FALSE
    /\ DetailOff
    /\ emitted = <<>> /\ tick = NoTick
    /\ hist = [NoHist EXCEPT !.faults = MaxFaults]

NextBackfill ==
    \/ BfFind \/ BfOpen \/ BfSkipBlank \/ BfSend \/ BfMark \/ BfClose \/ BfJoin
    \/ AggTick \/ AggRecv \/ AggClosed
    \/ BackfillExit \/ EnvLogRotate \/ BackfillStart

SpecBackfill == InitBackfill /\ [][NextBackfill]_vars

(***************************************************************************)
(* Properties of the pipeline.                                             *)
(***************************************************************************)
\* How often the key k is among the lines ls.
RECURSIVE Count(_, _)
Count(k, ls) ==
    IF ls = <<>> THEN 0
    ELSE (IF Head(ls) = k THEN 1 ELSE 0) + Count(k, Tail(ls))

\* Aggregator.Run returns in this step.
RunReturns == aPc = "run" /\ aPc' = "done"

\* C1: when the root context is cancelled while the buffer holds at least one
\* line, Aggregator.Run, taking the ctx.Done branch, commits the buffered
\* counters to the store before it returns.
C1_FlushOnCancel ==
    [][(RunReturns /\ ctxDone(aggCtx) /\ hist'.exit = "ctx" /\ bufferSize > 0)
          => requests' = Upsert(requests, buffer)]_vars

\* The lines of the active file before the persisted offset.
Persisted ==
    IF dir[ActivePath] = NoIno \/ Row = NoRow THEN <<>>
    ELSE ScanAll(Take(inodes[dir[ActivePath]], Row.offset))

\* C2: with no flush failing on a store error and no enqueue timing out, once
\* the Tailer and the Aggregator have exited after a cancellation every
\* parseable line of the active file before the persisted offset is counted
\* in the store.
C2_AtLeastOnce ==
    (cancelled /\ tPc = "done" /\ aPc = "done" /\ ~hist.faulted)
    => \A k \in Keys : requests[k] >= Count(k, Persisted)

\* C10: a failed flush does not stop the Aggregator: Run returns only when
\* its context is cancelled or the stream is closed.
C10_RunOutlivesFailedFlush ==
    [][RunReturns => (ctxDone(aggCtx) \/ closed)]_vars

(***************************************************************************)
(* Properties of Backfill.                                                 *)
(***************************************************************************)
\* How often k is among the lines of the rotated files 1..n marked imported.
RECURSIVE ImportedCount(_, _)
ImportedCount(k, n) ==
    IF n = 0 THEN 0
    ELSE (IF dir[n] # NoIno /\ isImported(log_position, n)
          THEN Count(k, ScanAll(inodes[dir[n]])) ELSE 0) + ImportedCount(k, n - 1)

\* C3: when backfill.Run has returned, the counters of all lines of every
\* rotated file that log_position marks as imported are committed; a run that
\* ended before the commit (failed flush) has left the file pending.
C3_ImportedIsCommitted ==
    (bPc = "done" /\ ~hist.shifted)
    => \A k \in Keys : requests[k] >= ImportedCount(k, MaxRot)

\* C4: across restarts, logrotate having renamed the files in between or not,
\* backfill has fed the content of each rotated sibling that holds a line
\* exactly once when it has returned.
C4_FedExactlyOnce ==
    (bPc = "done" /\ ~hist.faulted)
    => \A p \in Rotated :
          (dir[p] # NoIno /\ NonBlank(ScanAll(inodes[dir[p]])) # <<>>)
          => hist.fed[dir[p]] = 1

\* A run of backfill after one that returned nil, on the same files.
SecondRun ==
    /\ hist.prev.res = "nil"
    /\ ~hist.shifted
    /\ bPc \notin {"off", "find"}
Untouched ==
    /\ requests = hist.prev.requests
    /\ log_position = hist.prev.log_position

\* C5 as stated: after a backfill.Run that returned nil, a second one on the
\* unchanged files finds no pending file and leaves the tables and
\* log_position as they were.
C5_SecondRunFindsNothing ==
    SecondRun => (hist.found = <<>> /\ Untouched)

\* C5, with empty files: after a backfill.Run that returned nil, a second one
\* on the unchanged files finds only empty files pending (a marker of size 0
\* does not count as imported), enqueues nothing and leaves the tables and
\* log_position as they were.
C5_SecondRunIsNoOp ==
    SecondRun
    => /\ \A i \in 1..Len(hist.found) : inodes[dir[hist.found[i]]] = <<>>
       /\ lines = <<>>
       /\ bufferSize = 0
       /\ Untouched

C5_Witness ==
    /\ SecondRun
    /\ bPc = "done"
    /\ hist.found = <<>>
    /\ hist.prev.requests # EmptyMap
    /\ Untouched

(***************************************************************************)
(* The Aggregator alone on a stream of parsed entries, its flushes failing *)
(* at any statement, and started anew after it has returned an error.      *)
(***************************************************************************)
InitDetail ==
    /\ InitFs
    /\ requests = EmptyMap
    /\ log_position = [p \in Paths |-> NoRow]
    /\ mPc = "running" /\ cancelled = FALSE /\ run = 1
    /\ bPc = "off" /\ BackfillOff
    /\ tPc = "off" /\ TailerOff
    /\ aPc = "run" /\ AggOff
    /\ lines = <<>> /\ closed = FALSE
    /\ emitted = <<>> /\ tick = NoTick
    /\ hist = [NoHist EXCEPT !.faults = MaxFaults]
    /\ tables = EmptyTables /\ bufs = NewBufs(1)
    /\ pool = {} /\ fl = NoFlush /\ ret = NoCleanup /\ flushed = NoFlushed
    /\ parser = <<>> /\ rotated = <<>>

InitAgg ==
    /\ InitDetail
    /\ \E s \in Streams : input = [all |-> s, next |-> 1]

NextAgg ==
    \/ AggLine \/ AggFlushTick
    \/ FlushBegin \/ FlushExec \/ FlushCommit
    \/ AggNew

SpecAgg == InitAgg /\ [][NextAgg]_vars

(***************************************************************************)
(* Properties of the flush.                                                *)
(***************************************************************************)
RECURSIVE SumSeq(_)
SumSeq(s) == IF s = <<>> THEN 0 ELSE s[1] + SumSeq(Tail(s))

\* What the committed flushes carried, summed per key.
Done == flushed.done
DoneKeys(buf) == UNION { DOMAIN Done[i].bufs[buf] : i \in 1..Len(Done) }
DoneCount(buf, k) == SumSeq([i \in 1..Len(Done) |-> Cnt(Done[i].bufs[buf], k)])
DoneCounts(buf) == [k \in DoneKeys(buf) |-> DoneCount(buf, k)]
DoneRequests ==
    [k \in DoneKeys("requests") |->
        requestVal(SumSeq([i \in 1..Len(Done) |-> Val(Done[i].bufs.requests, k).Count]),
                   SumSeq([i \in 1..Len(Done) |-> Val(Done[i].bufs.requests, k).Bytes]),
                   SumSeq([i \in 1..Len(Done) |-> Val(Done[i].bufs.requests, k).Duration]))]
Committed ==
    [requests |-> DoneRequests,
     visitors |-> UNION { Done[i].bufs.visitors : i \in 1..Len(Done) },
     referrers |-> DoneCounts("referrers"),
     user_agents |-> DoneCounts("userAgents"),
     countries |-> DoneCounts("countries"),
     browsers |-> DoneCounts("browsers"),
     os_stats |-> DoneCounts("osStats"),
     duration_hist |-> DoneCounts("durationHist")]

RECURSIVE AccAll(_, _)
AccAll(b, es) == IF es = <<>> THEN b ELSE AccAll(accumulateEntry(b, es[1]), Tail(es))

\* C11: a flush is all-or-nothing. The tables hold the increments of every
\* buffer of each flush that committed and nothing of a flush that failed,
\* whichever statement failed; once flush has taken the buffers, and after it
\* has returned either way, the buffers and the line count are empty; and the
\* buffers hold the entries accumulated since, so nothing of a failed flush
\* is carried into a later one.
C11_FlushAllOrNothing ==
    /\ tables = Committed
    /\ (fl.pc # "off" \/ flushed.last \in {"committed", "failed"})
          => (bufs = NewBufs(bufs.ipSalt) /\ bufs.bufferSize = 0)
    /\ bufs = AccAll(NewBufs(bufs.ipSalt), flushed.cur)

\* A flush failed after its first statements had run, in a store that holds
\* an earlier flush.
C11_Witness ==
    /\ flushed.last = "failed" /\ flushed.at >= 2
    /\ flushed.done # <<>>

(***************************************************************************)
(* The start of the process: backfill.Run over one rotated file that holds *)
(* more lines than the channel, with store calls that may fail; then the   *)
(* Tailer and the live Aggregator on the active file.                      *)
(***************************************************************************)
RECURSIVE Flatten(_)
Flatten(cs) == IF cs = <<>> THEN <<>> ELSE cs[1] \o Flatten(Tail(cs))
RotatedFiles ==
    { Flatten(cs) : cs \in UNION { [1..n -> LineChunks] : n \in 1..(StreamCap + 2) } }

InitStartup ==
    /\ \E c0 \in Files, c1 \in RotatedFiles :
        /\ dir = [p \in Paths |-> IF p = ActivePath THEN 1 ELSE IF p = 1 THEN 2 ELSE NoIno]
        /\ inodes = [i \in 1..MaxInodes |-> IF i = 1 THEN c0 ELSE IF i = 2 THEN c1 ELSE <<>>]
    /\ nextIno = 3
    /\ requests = EmptyMap
    /\ log_position = [p \in Paths |-> NoRow]
    /\ mPc = "backfill" /\ cancelled = FALSE /\ run = 1
    /\ bPc = "find" /\ BackfillOff
    /\ tPc = "off" /\ TailerOff
    /\ aPc = "off" /\ AggOff
    /\ lines = <<>> /\ closed = FALSE
    /\ DetailOff
    /\ emitted = <<>> /\ tick = NoTick
    /\ hist = [NoHist EXCEPT !.faults = MaxFaults]

NextStartup ==
    \/ BfFind \/ BfOpen \/ BfSkipBlank \/ BfSend \/ BfMark \/ BfClose \/ BfJoin
    \/ AggTick \/ AggRecv \/ AggClosed
    \/ MainStart
    \/ TailerLoad \/ TickStat \/ TickOpen \/ TickSkipBlank \/ TickSend \/ TickEnd
    \/ TailerReload

SpecStartup == InitStartup /\ [][NextStartup]_vars

\* C12: backfill.Run always returns. While Run has not returned, Run or its
\* aggregator can take a step: Run is never left waiting for something that
\* will not happen.
C12_RunAlwaysReturns ==
    (bPc \notin {"off", "done"}) => ENABLED NextStartup

\* The dedicated aggregator, the Tailer and the live Aggregator, told apart
\* by the context Run was called with.
Dedicated == aggCtx = "background" /\ aPc # "off"
Live == aggCtx = "root" /\ aPc # "off"

\* C13: backfill completes before the Tailer starts. Until backfill.Run has
\* returned, the Tailer and the live Aggregator have not been started (no tick
\* has run, no line of the active file is enqueued, the only Aggregator is
\* the dedicated one); and once Run has returned, the dedicated aggregator has
\* returned from its last flush.
C13_BackfillBeforeTailer ==
    /\ (bPc # "done") => (mPc = "backfill" /\ tPc = "off" /\ tick = NoTick /\ ~Live)
    /\ (bPc = "done" /\ mPc = "backfill") => (aPc \in {"off", "done"})
    /\ (mPc # "backfill") => bPc = "done"

\* The Tailer has enqueued a line of the active file after a backfill that
\* imported a rotated file and committed its lines.
C13_Witness ==
    /\ hist.found # <<>> /\ bPc = "done" /\ bfErr = "nil"
    /\ \E k \in Keys : requests[k] > 0
    /\ tPc = "scan" /\ tick.out # <<>>

\* C14: the Tailer's enqueue respects cancellation. Once the root context is
\* cancelled, no step of the Tailer enqueues a line: a tick that is scanning
\* stops sending.
C14_NoEnqueueAfterCancel ==
    [][(cancelled /\ tPc = "scan") => (tPc' = "scan" => Len(tick'.out) <= Len(tick.out))]_vars

\* C15: a line whose enqueue timed out is dropped and the persisted offset
\* advances past it. After a tick in which an enqueue timed out, on a file of
\* complete non-blank lines read as it was stat'ed, the stored position is the
\* end of the file: it covers every line the tick read, enqueued or dropped.
C15_OffsetPassesDroppedLines ==
    (/\ Ticked /\ tick.timedOut
     /\ dir[ActivePath] = tick.ino /\ inodes[tick.ino] = tick.data
     /\ EndsComplete(tick.data) /\ NoBlankLine(tick.data)
     /\ (tick.start = 0 \/ tick.data[tick.start] = NL))
    => (Row.offset = Len(tick.data) /\ Row.inode = tick.ino)

\* C16: a fatal error of the HTTP server trips the root cancellation as a
\* signal does: the process does not exit without the root context having
\* been cancelled.
C16_ServerErrorCancels ==
    (mPc = "exited") => cancelled

(***************************************************************************)
(* The writers of the store side by side: the Aggregator's flushes, the    *)
(* Cleaner's sweep and the Tailer's position saves, on the one connection  *)
(* of the pool.                                                            *)
(***************************************************************************)
\* Streams of one visitor's requests to one router, in the hour before the
\* cutoff and in the hour after.
SweptStreams ==
    { s \in Streams :
        \A i \in DOMAIN s : s[i].Router = "web" /\ s[i].IP = "ip1" /\ s[i].Referer = "" }

InitStore ==
    /\ InitDetail
    /\ \E s \in SweptStreams : input = [all |-> s, next |-> 1]

NextStore ==
    \/ AggLine \/ AggFlushTick
    \/ FlushBegin \/ FlushExec \/ FlushCommit
    \/ CleanBegin \/ CleanExec \/ CleanCommit
    \/ TailerSave

SpecStore == InitStore /\ [][NextStore]_vars

\* A whole flush and a whole sweep, applied to the tables in one go.
RECURSIVE ExecFrom(_, _, _)
ExecFrom(t, sw, i) == IF i > Statements THEN t ELSE ExecFrom(Exec(t, sw, i), sw, i + 1)
RECURSIVE DeleteFrom(_, _, _)
DeleteFrom(t, cutoff, i) ==
    IF i > Statements THEN t ELSE DeleteFrom(Delete(t, cutoff, i), cutoff, i + 1)
FlushOpen == fl.pc \in {"exec", "commit"}
CleanOpen == ret.pc \in {"exec", "commit"}

\* C17: the store serializes its writers. A flush and a sweep never have
\* their transactions open together; every change of the store is one whole
\* operation applied to the store as it was at that moment (a committed
\* flush, a committed sweep, or a position save), so the store is what these
\* operations give one after the other in the order they completed; and the
\* position row is always the last one saved.
C17_WritersSerialized ==
    [][/\ ~(FlushOpen' /\ CleanOpen')
       /\ Cardinality(pool') <= MaxOpenConns
       /\ (tables' # tables)
             => \/ /\ fl.pc = "commit" /\ fl'.pc = "off"
                   /\ tables' = ExecFrom(tables, fl.swapped, 1)
                \/ /\ ret.pc = "commit" /\ ret'.pc = "idle"
                   /\ tables' = DeleteFrom(tables, ret.cutoff, 1)
       /\ (log_position' # log_position) => (tables' = tables /\ flushed'.pos # flushed.pos)
       /\ log_position'[ActivePath] = flushed'.pos]_vars

\* The sweep has deleted rows of a committed flush in its open transaction,
\* a flush waits for the connection, and a position has been saved.
C17_Witness ==
    /\ CleanOpen /\ ret.work.tables # tables
    /\ fl.pc = "begin"
    /\ flushed.done # <<>> /\ flushed.pos # NoRow

(***************************************************************************)
(* Properties of the aggregates.                                           *)
(***************************************************************************)
\* C18: upserts accumulate. For every key of requests the row is the sum,
\* field by field, of what the committed flushes carried for that key (for
\* two flushes carrying (a, b, c) and (d, e, f): (a+d, b+e, c+f)); likewise
\* the counts of referrers and of user_agents.
C18_UpsertsAccumulate ==
    /\ \A k \in DoneKeys("requests") :
          k \in DOMAIN tables.requests /\ tables.requests[k] = DoneRequests[k]
    /\ \A k \in DoneKeys("referrers") :
          k \in DOMAIN tables.referrers
             /\ tables.referrers[k] = DoneCount("referrers", k)
    /\ \A k \in DoneKeys("userAgents") :
          k \in DOMAIN tables.user_agents
             /\ tables.user_agents[k] = DoneCount("userAgents", k)

\* Two flushes have committed that carried different values for one key of
\* requests, and counts for one key of user_agents.
C18_Witness ==
    /\ Len(Done) = 2
    /\ \E k \in DOMAIN Done[1].bufs.requests \cap DOMAIN Done[2].bufs.requests :
          Done[1].bufs.requests[k] # Done[2].bufs.requests[k]
    /\ DOMAIN Done[1].bufs.userAgents \cap DOMAIN Done[2].bufs.userAgents # {}

\* The aggregate of a collection of entries, entry by entry in no order:
\* the keys an entry counts under, and per key the number (and the sums) of
\* the entries that count under it.
RECURSIVE SumSet(_, _)
SumSet(S, v) ==
    IF S = {} THEN 0 ELSE LET x == CHOOSE y \in S : TRUE IN v[x] + SumSet(S \ {x}, v)
CountsUnder(tab, e) ==
    CASE tab = "referrers" -> IF extractDomain(e.Referer) # "" THEN {refKey(e)} ELSE {}
      [] tab = "user_agents" -> {uaKey(e)}
      [] tab = "countries" -> IF geoReader /\ lookupCountry(e.IP) # "" THEN {cKey(e)} ELSE {}
      [] tab = "browsers" -> {bKey(e)}
      [] tab = "os_stats" -> {oKey(e)}
      [] tab = "duration_hist" -> {dhKey(e)}
CountTable(tab, es) ==
    [k \in UNION { CountsUnder(tab, es[i]) : i \in DOMAIN es } |->
        Cardinality({ i \in DOMAIN es : k \in CountsUnder(tab, es[i]) })]
RequestTable(es) ==
    [k \in { reqKey(es[i]) : i \in DOMAIN es } |->
        LET I == { i \in DOMAIN es : reqKey(es[i]) = k }
        IN  requestVal(Cardinality(I), SumSet(I, [i \in DOMAIN es |-> es[i].Bytes]),
                       SumSet(I, [i \in DOMAIN es |-> es[i].DurationMs]))]
Aggregate(es, salt) ==
    [requests |-> RequestTable(es),
     visitors |-> { visKey(es[i], salt) : i \in { j \in DOMAIN es : Classify(es[j]) = "human" } },
     referrers |-> CountTable("referrers", es),
     user_agents |-> CountTable("user_agents", es),
     countries |-> CountTable("countries", es),
     browsers |-> CountTable("browsers", es),
     os_stats |-> CountTable("os_stats", es),
     duration_hist |-> CountTable("duration_hist", es)]

\* Every line of the stream has been accumulated and flushed, and no flush
\* has failed.
AllFlushed ==
    /\ input.next > Len(input.all)
    /\ bufs.bufferSize = 0 /\ fl.pc = "off"
    /\ ~hist.faulted

\* C19: order-independence. Once every line has been accumulated and all
\* flushes have succeeded, the tables are the aggregate of the collection of
\* lines, whatever their order in the stream and wherever the tick and
\* threshold flushes fell between them.
C19_OrderIndependent ==
    AllFlushed => tables = Aggregate(input.all, bufs.ipSalt)

\* Two different lines of one hour, each committed by a flush of its own.
C19_Witness ==
    /\ AllFlushed
    /\ Len(input.all) >= 2 /\ Len(Done) >= 2
    /\ input.all[1] # input.all[2]
    /\ HourBucket(input.all[1].Timestamp) = HourBucket(input.all[2].Timestamp)

\* The records classified human that the committed flushes carried, each
\* with the salt of its Aggregator.
Humans ==
    UNION { { [salt |-> Done[i].salt, e |-> Done[i].entries[j]] :
                j \in { n \in DOMAIN Done[i].entries :
                          Classify(Done[i].entries[n]) = "human" } } :
            i \in DOMAIN Done }

\* C20: visitor scope. Each human record committed by an Aggregator has
\* exactly one visitors row for its (hour, router, ip), in however many
\* flushes such records came; and there are as many rows as distinct (hour,
\* router, ip) among these records, so records that differ in hour or router
\* have distinct rows and no other record has a row.
C20_VisitorScope ==
    /\ \A h \in Humans :
          Cardinality({ r \in tables.visitors :
                          /\ r[1] = HourBucket(h.e.Timestamp)
                          /\ r[2] = h.e.Router
                          /\ r[3] = hashIP(h.e.IP, h.salt) }) = 1
    /\ Cardinality(tables.visitors) =
          Cardinality({ <<HourBucket(h.e.Timestamp), h.e.Router, h.e.IP, h.salt>> :
                          h \in Humans })

\* Two flushes of one Aggregator have committed human records of the same
\* (hour, router, ip).
C20_Witness ==
    /\ Len(Done) = 2 /\ Done[1].salt = Done[2].salt
    /\ \E h1 \in Humans, h2 \in Humans :
          /\ h1.e \in { Done[1].entries[j] : j \in DOMAIN Done[1].entries }
          /\ h2.e \in { Done[2].entries[j] : j \in DOMAIN Done[2].entries }
          /\ HourBucket(h1.e.Timestamp) = HourBucket(h2.e.Timestamp)
          /\ h1.e.Router = h2.e.Router /\ h1.e.IP = h2.e.IP
    /\ Cardinality(tables.visitors) = 1

(***************************************************************************)
(* One process from its start: the dedicated aggregator of backfill.Run on *)
(* the entries of the rotated files until the stream is closed, then the   *)
(* live Aggregator that main creates, on the entries that follow.          *)
(***************************************************************************)
\* Run, lines 165-173, with the last flush left out: Run returns at once.
AggStreamClosedUnflushed ==
    /\ aPc = "run" /\ fl.pc = "off" /\ aggCtx = "background"
    /\ aPc' = "last"
    /\ UNCHANGED <<notDetail, tables, log_position, input, pool, ret, aggErr, hist, run,
                   bufs, fl, flushed>>

\* Run, lines 165-173: the receive reports the stream closed and empty; Run
\* goes into its last flush.
AggStreamClosed ==
    /\ aPc = "run" /\ fl.pc = "off" /\ aggCtx = "background"
    /\ aPc' = "last"
    /\ Swap(bufs, [flushed EXCEPT !.last = "none"])
    /\ UNCHANGED <<notDetail, tables, log_position, input, pool, ret, aggErr, hist, run>>

\* Run, line 173: the last flush has returned nil, and so does Run.
AggReturn ==
    /\ aPc = "last" /\ fl.pc = "off"
    /\ aPc' = "done" /\ aggErr' = "nil"
    /\ UNCHANGED <<notDetail, detailVars, log_position, hist, run>>

\* rand.Read in New: sixteen random bytes, taken as different from every
\* salt drawn before.
freshSalt(salt) == salt + 1

\* main, lines 52-62: backfill.Run has returned with or without an error, and
\* main creates the live Aggregator with New.
MainNew ==
    /\ aPc = "done" /\ aggCtx = "background"
    /\ aggCtx' = "root"
    /\ aPc' = "run" /\ aggErr' = "none"
    /\ bufs' = NewBufs(freshSalt(bufs.ipSalt))
    /\ flushed' = [flushed EXCEPT !.last = "none"]
    /\ UNCHANGED <<fsVars, requests, mPc, cancelled, bfVars, tailerVars, buffer,
                   bufferSize, chanVars, emitted, tick, tables, log_position, input,
                   pool, fl, ret, hist, run, parser, rotated>>

InitProcess ==
    /\ InitFs
    /\ requests = EmptyMap
    /\ log_position = [p \in Paths |-> NoRow]
    /\ mPc = "running" /\ cancelled = FALSE /\ run = 1
    /\ bPc = "off" /\ BackfillOff
    /\ tPc = "off" /\ TailerOff
    /\ aPc = "run" /\ aggCtx = "background"
    /\ buffer = EmptyMap /\ bufferSize = 0 /\ aggErr = "none"
    /\ lines = <<>> /\ closed = FALSE
    /\ emitted = <<>> /\ tick = NoTick
    /\ hist = [NoHist EXCEPT !.faults = MaxFaults]
    /\ tables = EmptyTables /\ bufs = NewBufs(1)
    /\ pool = {} /\ fl = NoFlush /\ ret = NoCleanup /\ flushed = NoFlushed
    /\ parser = <<>> /\ rotated = <<>>
    /\ \E s \in Streams : input = [all |-> s, next |-> 1]

NextProcess ==
    \/ AggLine \/ AggFlushTick \/ AggStreamClosed \/ AggReturn
    \/ FlushBegin \/ FlushExec \/ FlushCommit
    \/ MainNew

SpecProcess == InitProcess /\ [][NextProcess]_vars

\* C21: the IP salt is one constant of the process. The dedicated aggregator
\* of backfill.Run and the live Aggregator hash with the same salt, so the
\* human records of one (hour, router, ip) that the two have committed have
\* one visitors row between them: there are as many rows as distinct (hour,
\* router, ip) among the committed human records.
C21_OneSaltPerProcess ==
    /\ \A i \in DOMAIN Done, j \in DOMAIN Done : Done[i].salt = Done[j].salt
    /\ Cardinality(tables.visitors) =
          Cardinality({ <<HourBucket(h.e.Timestamp), h.e.Router, h.e.IP>> :
                          h \in Humans })

(***************************************************************************)
(* Who becomes a visitor.                                                  *)
(***************************************************************************)
\* The records the committed flushes carried, each with the salt of its
\* Aggregator, and those among them stored under the same key as e.
Records ==
    UNION { { [salt |-> Done[i].salt, at |-> <<i, j>>, e |-> Done[i].entries[j]] :
                j \in DOMAIN Done[i].entries } : i \in DOMAIN Done }
StoredRouter(e) == IF e.Router = "" THEN "unrouted" ELSE e.Router
SameRequest(e) ==
    { r \in Records : /\ HourBucket(r.e.Timestamp) = HourBucket(e.Timestamp)
                      /\ StoredRouter(r.e) = StoredRouter(e)
                      /\ r.e.Path = e.Path }
SameAgent(e) ==
    { r \in Records : /\ HourBucket(r.e.Timestamp) = HourBucket(e.Timestamp)
                      /\ StoredRouter(r.e) = StoredRouter(e)
                      /\ ClassifyUA(r.e.UserAgent) = ClassifyUA(e.UserAgent) }

\* C22: only human traffic creates visitors. Every visitors row is the row
\* of a committed record that is routed and has no bot user agent, and no row
\* has the router "unrouted"; a committed record that is unrouted (whatever
\* its user agent) or has a bot user agent is still counted, in the requests
\* row and the user_agents row of its hour and router, where the router of an
\* unrouted record is "unrouted".
C22_OnlyHumansAreVisitors ==
    /\ \A v \in tables.visitors :
          /\ v[2] # "unrouted"
          /\ \E r \in Records :
                /\ r.e.Router # "" /\ ~isBot(r.e.UserAgent)
                /\ v = <<HourBucket(r.e.Timestamp), r.e.Router, hashIP(r.e.IP, r.salt)>>
    /\ \A r \in Records :
          (r.e.Router = "" \/ isBot(r.e.UserAgent)) =>
             LET hour == HourBucket(r.e.Timestamp)
                 rk == <<hour, StoredRouter(r.e), r.e.Path>>
                 uk == <<hour, StoredRouter(r.e), ClassifyUA(r.e.UserAgent)>>
             IN  /\ rk \in DOMAIN tables.requests
                 /\ tables.requests[rk].Count = Cardinality(SameRequest(r.e))
                 /\ uk \in DOMAIN tables.user_agents
                 /\ tables.user_agents[uk] = Cardinality(SameAgent(r.e))

\* An unrouted record with a browser's user agent and a routed record with a
\* bot's user agent are committed, and there is no visitor.
C22_Witness ==
    /\ \E r \in Records : r.e.Router = "" /\ ~isBot(r.e.UserAgent)
    /\ \E r \in Records : r.e.Router # "" /\ isBot(r.e.UserAgent)
    /\ tables.visitors = {}
    /\ \E k \in DOMAIN tables.requests : k[2] = "unrouted"

(***************************************************************************)
(* The retention sweep.                                                    *)
(***************************************************************************)
CountTables == {"requests", "referrers", "user_agents", "countries", "browsers",
                "os_stats", "duration_hist"}

\* C23: a successful sweep removes exactly the old rows. When cleanup's
\* transaction commits, every table holds afterwards precisely the rows it
\* held before whose hour is at or after the cutoff, each with its value
\* unchanged, no row with an hour before the cutoff is left, and the
\* position rows are not touched.
C23_SweepRemovesOldRows ==
    [][(ret.pc = "commit" /\ ret'.pc = "idle" /\ hist' = hist)
         => /\ \A t \in CountTables :
                 /\ DOMAIN tables'[t] = { k \in DOMAIN tables[t] : ~(k[1] < ret.cutoff) }
                 /\ \A k \in DOMAIN tables'[t] : tables'[t][k] = tables[t][k]
            /\ tables'.visitors = { v \in tables.visitors : ~(v[1] < ret.cutoff) }
            /\ \A t \in CountTables : \A k \in DOMAIN tables'[t] : k[1] >= ret.cutoff
            /\ log_position' = log_position]_vars

\* A sweep has committed: a committed record of the hour before the cutoff
\* has lost its requests row, a row of the cutoff hour is kept, and there is
\* a position row.
C23_Witness ==
    /\ ret.pc = "idle" /\ ret.n >= 1
    /\ \E r \in Records :
          /\ \E c \in Cutoffs : HourBucket(r.e.Timestamp) < c
          /\ <<HourBucket(r.e.Timestamp), StoredRouter(r.e), r.e.Path>>
                \notin DOMAIN tables.requests
    /\ \E k \in DOMAIN tables.requests : k[1] \in Cutoffs
    /\ tables.visitors # {}
    /\ flushed.pos # NoRow

(***************************************************************************)
(* The Parser: created by main from the configured format, its format      *)
(* detected from the first lines of the active file, then used by the      *)
(* Aggregators for every line.                                             *)
(***************************************************************************)
MaxLog == 2
firstLines == 10

\* A line is told apart by the grammars it matches. Neither regular
\* expression is anchored at its end, and a Traefik line begins like a
\* Combined line followed by one more field, so it matches both.
LineKinds == {"traefik", "combined", "junk"}
matchesTraefik(line) == line = "traefik"
matchesCombined(line) == line \in {"traefik", "combined"}

\* The active file at startup: its lines (some blank), or no readable file.
Logs ==
    { [readable |-> TRUE, lines |-> ls] :
        ls \in UNION { [1..n -> LineKinds \cup {""}] : n \in 0..MaxLog } }
    \cup { [readable |-> FALSE, lines |-> <<>>] }
Configured == {"auto", "traefik", "combined", "Combined"}

NewParser(format) ==
    CASE format \in {"traefik"} -> "traefik"
      [] format \in {"combined", "Combined"} -> "combined"
      [] OTHER -> "auto"

readFirstLines(log, n) ==
    IF ~log.readable THEN [err |-> TRUE, lines |-> <<>>]
    ELSE LET ls == SelectSeq(log.lines, LAMBDA l : l # "")
         IN  [err |-> FALSE, lines |-> Take(ls, n)]

DetectFormat(ls) ==
    LET traefikHits == Cardinality({ i \in DOMAIN ls : ls[i] # "" /\ matchesTraefik(ls[i]) })
        combinedHits == Cardinality({ i \in DOMAIN ls :
                                        /\ ls[i] # "" /\ ~matchesTraefik(ls[i])
                                        /\ matchesCombined(ls[i]) })
    IN  IF ls = <<>> THEN "traefik"
        ELSE IF combinedHits > traefikHits THEN "combined" ELSE "traefik"

Detect(format, ls) == IF format # "auto" THEN format ELSE DetectFormat(ls)

\* Parser.ParseLine: the grammar the line is parsed with, or an error.
ParserParseLine(format, line) ==
    CASE format = "traefik" -> IF matchesTraefik(line) THEN "traefik" ELSE "error"
      [] format = "combined" -> IF matchesCombined(line) THEN "combined" ELSE "error"
      [] OTHER -> IF matchesTraefik(line) THEN "traefik"
                  ELSE IF matchesCombined(line) THEN "combined" ELSE "error"

notParser == <<fsVars, storeVars, mainVars, bfVars, tailerVars, aggVars, chanVars,
               histVars, tables, bufs, input, pool, fl, ret, flushed, rotated>>

\* main, lines 37-50: NewParser, and for the format auto, Detect on the first
\* lines of the log file if there are any.
MainParser ==
    /\ parser.pc = "new"
    /\ LET format == NewParser(parser.cfg)
           first == readFirstLines(parser.log, firstLines)
           detected == IF format = "auto" /\ ~first.err /\ Len(first.lines) > 0
                       THEN Detect(format, first.lines) ELSE format
       IN  parser' = [parser EXCEPT !.pc = "started", !.format = detected,
                                    !.chosen = detected]
    /\ UNCHANGED notParser

\* Aggregator.Run parses a line of the stream.
AggParse ==
    /\ parser.pc = "started" /\ Len(parser.parsed) < MaxLines
    /\ \E line \in LineKinds :
          parser' = [parser EXCEPT !.parsed =
                        Append(@, [line |-> line,
                                   with |-> ParserParseLine(parser.format, line)])]
    /\ UNCHANGED notParser

\* Detect is called again, on any lines.
DetectAgain ==
    /\ parser.pc = "started"
    /\ \E ls \in UNION { [1..n -> LineKinds] : n \in 0..MaxLog } :
          parser' = [parser EXCEPT !.format = Detect(@, ls)]
    /\ UNCHANGED notParser

InitParser ==
    /\ InitFs
    /\ requests = EmptyMap
    /\ log_position = [p \in Paths |-> NoRow]
    /\ mPc = "backfill" /\ cancelled = FALSE /\ run = 1
    /\ bPc = "off" /\ BackfillOff
    /\ tPc = "off" /\ TailerOff
    /\ aPc = "off" /\ AggOff
    /\ lines = <<>> /\ closed = FALSE
    /\ emitted = <<>> /\ tick = NoTick
    /\ hist = NoHist
    /\ tables = EmptyTables /\ bufs = <<>> /\ input = <<>>
    /\ pool = {} /\ fl = <<>> /\ ret = <<>> /\ flushed = <<>> /\ rotated = <<>>
    /\ \E cfg \in Configured, log \in Logs :
          parser = [pc |-> "new", cfg |-> cfg, log |-> log, format |-> "none",
                    chosen |-> "none", parsed |-> <<>>]

NextParser == MainParser \/ AggParse \/ DetectAgain

SpecParser == InitParser /\ [][NextParser]_vars

\* C24: the format is chosen once. After startup with the format auto the
\* parser holds traefik or combined, and traefik when the first lines decide
\* nothing (no readable file, no line, no line of either format, a tie); a
\* configured format is the parser's format; the format stays what it was
\* after startup whatever Detect is called with later; and every line parsed
\* was parsed with the grammar of that format or rejected.
C24_FormatLocked ==
    (parser.pc = "started") =>
       /\ NewParser(parser.cfg) = "auto" => parser.chosen \in {"traefik", "combined"}
       /\ NewParser(parser.cfg) # "auto" => parser.chosen = NewParser(parser.cfg)
       /\ (/\ NewParser(parser.cfg) = "auto"
           /\ \A i \in DOMAIN parser.log.lines : ~matchesCombined(parser.log.lines[i]))
             => parser.chosen = "traefik"
       /\ parser.format = parser.chosen
       /\ \A i \in DOMAIN parser.parsed : parser.parsed[i].with \in {parser.chosen, "error"}

(***************************************************************************)
(* Two starts of the process with logrotate in between: the Tailer and the *)
(* Aggregator on the active file, the process ended, the active file       *)
(* renamed to base.1, and backfill at the next start. No store call fails. *)
(***************************************************************************)
\* The process has ended and is ready to be started again: the goroutines,
\* the channel and whatever the Aggregator had buffered are gone.
ProcessEnd ==
    /\ mPc = "exited" /\ run < MaxRuns
    /\ mPc' = "backfill" /\ cancelled' = FALSE
    /\ bPc' = "off" /\ ResetBackfill
    /\ tPc' = "off" /\ ResetTailer
    /\ aPc' = "off" /\ ResetAgg
    /\ lines' = <<>> /\ closed' = FALSE
    /\ UNCHANGED <<detailVars, fsVars, storeVars, run, histVars>>

InitRestart ==
    /\ InitFs
    /\ requests = EmptyMap
    /\ log_position = [p \in Paths |-> NoRow]
    /\ mPc = "backfill" /\ cancelled = FALSE /\ run = 1
    /\ bPc = "find" /\ BackfillOff
    /\ tPc = "off" /\ TailerOff
    /\ aPc = "off" /\ AggOff
    /\ lines = <<>> /\ closed = FALSE
    /\ DetailOff
    /\ emitted = <<>> /\ tick = NoTick
    /\ hist = [NoHist EXCEPT !.record = TRUE]

NextRestart ==
    \/ Next
    \/ BfOpen \/ BfSkipBlank \/ BfSend \/ BfMark \/ BfClose \/ BfJoin \/ AggClosed
    \/ ProcessEnd \/ EnvLogRotate \/ BackfillStart

SpecRestart == InitRestart /\ [][NextRestart]_vars

\* How often a line with the key k stands in the files.
RECURSIVE Written(_, _)
Written(k, i) ==
    IF i = 0 THEN 0 ELSE Count(k, ScanAll(inodes[i])) + Written(k, i - 1)

\* C25: a line the Tailer has ingested from the active file is not counted
\* again by Backfill once the file is rotated to base.1 and the process is
\* started again. With no blank line in the files and no line enqueued
\* twice by the Tailer, no key is counted more often than lines with it
\* stand in the files.
C25_RotatedNotRecounted ==
    (/\ \A i \in 1..MaxInodes : NoBlankLine(inodes[i])
     /\ \A k \in Keys : Count(k, emitted) <= Written(k, MaxInodes))
       => \A k \in Keys : requests[k] <= Written(k, MaxInodes)

(***************************************************************************)
(* The active file replaced while a tick is between its stat and its open. *)
(***************************************************************************)
\* C26: the position a tick persists describes the file the tick read. When
\* the active file was replaced between the tick's stat and its open, and the
\* new file holds complete lines, none blank, and no enqueue timed out, the
\* tick has enqueued every line of the new file and nothing else, and the
\* position it persisted is the new file's inode and end, so that the
\* following ticks start after these lines.
C26_ReplacedBetweenStatAndOpen ==
    (/\ Ticked /\ f # NoIno /\ f # tick.ino
     /\ ~tick.timedOut
     /\ EndsComplete(inodes[f]) /\ NoBlankLine(inodes[f]))
    => /\ tick.out = ScanAll(inodes[f])
       /\ lineCount > 0 => (Row.inode = f /\ Row.offset = Len(inodes[f]))

(***************************************************************************)
(* The Tailer on a file that no longer changes, with a receiver that takes *)
(* every line: the ticker keeps firing, store calls may fail within        *)
(* MaxFaults, and a line may be longer than the scanner's buffer.          *)
(***************************************************************************)
QuietFiles ==
    { s \in UNION { [1..n -> {"a", NL, Long}] : n \in 0..MaxFile } :
        s = <<>> \/ s[Len(s)] = NL }

InitQuiet ==
    /\ \E c \in QuietFiles :
          /\ dir = [p \in Paths |-> IF p = ActivePath THEN 1 ELSE NoIno]
          /\ inodes = [i \in 1..MaxInodes |-> IF i = 1 THEN c ELSE <<>>]
    /\ nextIno = 2
    /\ requests = EmptyMap
    /\ log_position = [p \in Paths |-> NoRow]
    /\ mPc = "running" /\ cancelled = FALSE /\ run = 1
    /\ bPc = "off" /\ BackfillOff
    /\ tPc = "load" /\ TailerOff
    /\ aPc = "off" /\ AggOff
    /\ lines = <<>> /\ closed = FALSE
    /\ DetailOff
    /\ emitted = <<>> /\ tick = NoTick
    /\ hist = [NoHist EXCEPT !.faults = MaxFaults]

TailerStep ==
    \/ TailerLoad \/ TickStat \/ TickOpen
    \/ TickSkipBlank \/ TickSend \/ TickScanErr \/ TickEnd \/ TailerReload

NextQuiet == TailerStep \/ ChanRecv

\* The ticker fires again and again and the Tailer's goroutine runs; the
\* receiver takes a line whenever there is one.
SpecQuiet ==
    InitQuiet /\ [][NextQuiet]_vars /\ WF_vars(TailerStep) /\ WF_vars(ChanRecv)

\* C27: on a file that no longer changes, with a stream that accepts every
\* line, the Tailer comes to rest: from some tick on no tick enqueues a line,
\* also after ticks that ended in a scanner error or a failed save.
C27_ComesToRest == <>[](tick.out = <<>>)

\* C28: after its first read the Tailer starts again at offset 0 only for a
\* real rotation or truncation. Between two ticks the position in memory is
\* the persisted one, also after a reload that failed; and a tick that starts
\* at offset 0 although a position past 0 is persisted has found another
\* inode than the persisted one, or a size below the persisted offset.
C28_NoResetWithoutCause ==
    /\ (tPc = "idle" /\ Row # NoRow)
          => (savedOffset = Row.offset /\ savedInode = Row.inode)
    /\ (tPc \in {"open", "scan"} /\ Row # NoRow /\ Row.offset > 0 /\ tick.start = 0)
          => (tick.ino # Row.inode \/ Len(tick.data) < Row.offset)

(***************************************************************************)
(* The stream is closed.                                                   *)
(***************************************************************************)
\* The entries of the committed flushes, in the order of the commits.
DoneEntries == Flatten([i \in DOMAIN Done |-> Done[i].entries])

\* C29: when the stream is closed and the context is not cancelled, with no
\* store call failing, Aggregator.Run has accumulated every entry that was
\* put on the stream before the close, the last flush has committed what the
\* earlier flushes had not, and Run has returned nil: the committed flushes
\* carry exactly the entries of the stream up to the close, in order, the
\* tables hold their sums, and nothing is left in the buffers.
C29_StreamClosedFlushesAll ==
    (aPc = "done" /\ aggCtx = "background" /\ ~hist.faulted)
    => /\ aggErr = "nil"
       /\ DoneEntries = Take(input.all, input.next - 1)
       /\ tables = Committed
       /\ bufs = NewBufs(bufs.ipSalt) /\ flushed.cur = <<>> /\ flushed.out = <<>>

\* Run has returned nil on the closed stream after a flush at the threshold
\* or the ticker and a last flush that carried an entry.
C29_Witness ==
    /\ aPc = "done" /\ aggCtx = "background" /\ aggErr = "nil"
    /\ Len(Done) >= 2
    /\ Done[Len(Done)].entries # <<>>
    /\ DoneEntries = Take(input.all, input.next - 1)

(***************************************************************************)
(* A backfill that fails on a file.                                        *)
(***************************************************************************)
\* Run, lines 402-421: processFile, os.Stat or markImported has failed.
BfAborts == bPc \in {"file", "scan"} /\ bPc' = "join" /\ bfErr' = "err"
\* Run is between that failure and its return.
BfAborted == bPc = "join" /\ bfErr = "err"
NotMarked(lp, ps) == \A i \in DOMAIN ps : ~isImported(lp, ps[i])
NoEnqueue == lines' = lines \/ (lines # <<>> /\ lines' = Tail(lines))

\* C30: when reading or marking a pending rotated file fails, backfill.Run
\* aborts. In the failing step the stream is closed and nothing is marked or
\* enqueued; from then on until Run returns the failing file and the files
\* after it stay pending and unmarked, no line is enqueued any more, and Run
\* returns only once the dedicated aggregator has returned, with the error.
C30_AbortOnFileError ==
    [][/\ BfAborts
            => /\ pending # <<>> /\ pending' = pending
               /\ log_position' = log_position
               /\ NotMarked(log_position', pending')
               /\ lines' = lines
               /\ closed'
       /\ BfAborted
            => /\ pending' = pending
               /\ log_position' = log_position
               /\ NotMarked(log_position', pending')
               /\ NoEnqueue
               /\ closed'
               /\ \/ bPc' = "join"
                  \/ bPc' = "done" /\ aPc = "done" /\ bfErr' = "err"]_vars

\* Run has returned the error of the first of two pending files; the second
\* holds lines, none of which has been enqueued or counted, and both files
\* are unmarked.
C30_Witness ==
    /\ bPc = "done" /\ bfErr = "err" /\ aPc = "done" /\ closed
    /\ Len(pending) = 2 /\ hist.found = pending
    /\ NotMarked(log_position, pending)
    /\ ScanAll(inodes[dir[pending[2]]]) # <<>>
    /\ \A k \in Keys : requests[k] = 0

(***************************************************************************)
(* The markers of a backfill that returned nil.                            *)
(***************************************************************************)
\* backfill.Run has returned nil.
BfReturnedNil == bPc = "done" /\ bfErr = "nil"
\* The size os.Stat reports for the rotated file at path.
StatSize(path) == Len(inodes[dir[path]])

\* C31 as stated: after backfill.Run has returned nil, isImported is true
\* for every rotated sibling that Run found pending, an empty file included.
C31_AllFoundImported ==
    BfReturnedNil
    => \A i \in DOMAIN hist.found : isImported(log_position, hist.found[i])

\* C31, with empty files: after backfill.Run has returned nil, every rotated
\* sibling that Run found pending has a marker row with offset = size = the
\* size of the file and inode 0, and isImported is true for it exactly when
\* the file is not empty.
C31_NonEmptyFoundImported ==
    BfReturnedNil
    => \A i \in DOMAIN hist.found :
          LET path == hist.found[i]
          IN  /\ log_position[path] =
                    [offset |-> StatSize(path), inode |-> 0, size |-> StatSize(path)]
              /\ isImported(log_position, path) <=> StatSize(path) > 0

\* Run has returned nil after it found an empty and a non-empty file pending.
C31_Witness ==
    /\ BfReturnedNil
    /\ \E i \in DOMAIN hist.found : StatSize(hist.found[i]) = 0
    /\ \E i \in DOMAIN hist.found : StatSize(hist.found[i]) > 0

(***************************************************************************)
(* backfill.Run over a directory listing: the names of the rotated         *)
(* siblings, plain and compressed, and the order in which their lines are  *)
(* enqueued.                                                               *)
(***************************************************************************)
LinesPerFile == 2
baseName == <<"access.log">>
GzExt == ".gz"
Digits == <<"0", "1", "2", "3">>

HasPrefix(s, prefix) == IsPrefix(prefix, s)
TrimPrefix(s, prefix) == IF HasPrefix(s, prefix) THEN Drop(s, Len(prefix)) ELSE s
HasSuffix(s, suffix) ==
    Len(suffix) <= Len(s) /\ Drop(s, Len(s) - Len(suffix)) = suffix
TrimSuffix(s, suffix) ==
    IF HasSuffix(s, suffix) THEN Take(s, Len(s) - Len(suffix)) ELSE s

\* strconv.Atoi: an optional sign and one or more decimal digits.
isDigit(c) == \E i \in DOMAIN Digits : Digits[i] = c
digitVal(c) == (CHOOSE i \in DOMAIN Digits : Digits[i] = c) - 1
RECURSIVE decimal(_, _)
decimal(cs, acc) ==
    IF cs = <<>> THEN acc ELSE decimal(Tail(cs), 10 * acc + digitVal(Head(cs)))
Atoi(cs) ==
    LET signed == cs # <<>> /\ Head(cs) \in {"+", "-"}
        ds == IF signed THEN Tail(cs) ELSE cs
    IN  IF ds = <<>> \/ \E i \in DOMAIN ds : ~isDigit(ds[i])
        THEN [ok |-> FALSE, n |-> 0]
        ELSE [ok |-> TRUE,
              n |-> IF signed /\ Head(cs) = "-" THEN 0 - decimal(ds, 0)
                    ELSE decimal(ds, 0)]

\* The names a directory can hold next to the active file, as sequences of
\* characters (the base name, the dot and the extension .gz written as one
\* character each), and the directory entries made of them.
Sibling(cs) == baseName \o <<".">> \o cs
FileNames ==
    { Sibling(<<"1">>), Sibling(<<"2">>), Sibling(<<"1", GzExt>>),
      Sibling(<<"2", GzExt>>), Sibling(<<"0", "1">>), Sibling(<<"b", "a", "k">>),
      <<"other.log", ".", "1">> }
DirEntry(name, d) == [name |-> name, isDir |-> d]
Listings ==
    { {DirEntry(baseName, FALSE)} \cup { DirEntry(n, FALSE) : n \in fs } \cup sub :
        fs \in SUBSET FileNames, sub \in SUBSET {DirEntry(Sibling(<<"3">>), TRUE)} }

\* findRotatedFiles, lines 454-476: the entries that are files named
\* baseName.N or baseName.N.gz, with their N.
rotatedFile(name) ==
    [path |-> name,
     num |-> Atoi(TrimSuffix(TrimPrefix(name, baseName \o <<".">>), <<GzExt>>)).n]
Matching(entries) ==
    { rotatedFile(e.name) :
        e \in { x \in entries :
                  /\ ~x.isDir
                  /\ HasPrefix(x.name, baseName \o <<".">>)
                  /\ Atoi(TrimSuffix(TrimPrefix(x.name, baseName \o <<".">>),
                                     <<GzExt>>)).ok } }

\* A comparison that would sort the lowest N first.
lessAscending(a, b) == a.num < b.num
\* findRotatedFiles, lines 480-482: the comparison handed to sort.Slice.
less(a, b) == a.num > b.num

\* sort.Slice: some arrangement that is sorted by less; the order of
\* elements of which neither is less than the other is not specified.
Arrangements(S) ==
    { q \in [1..Cardinality(S) -> S] :
        /\ \A i, j \in DOMAIN q : i # j => q[i] # q[j]
        /\ \A i, j \in DOMAIN q : i < j => ~less(q[j], q[i]) }

\* The content of a rotated file: its lines, gzip-compressed under a name
\* that ends in .gz.
FileText == [i \in 1..LinesPerFile |-> i]
gzip(text) == [compressed |-> text]
FileBytes(name) == IF HasSuffix(name, <<GzExt>>) THEN gzip(FileText) ELSE FileText
\* gzip.NewReader and the scanner on it.
gunzip(bytes) == bytes.compressed
\* processFile, lines 529-539: the lines the scanner yields.
ScanFile(name) ==
    IF HasSuffix(name, <<GzExt>>) THEN gunzip(FileBytes(name)) ELSE FileBytes(name)

notRotated == <<fsVars, storeVars, mainVars, bfVars, tailerVars, aggVars, chanVars,
                histVars, tables, bufs, input, pool, fl, ret, flushed, parser>>

\* Run, lines 357-376: the rotated files are found and those not yet imported
\* are kept.
RotFind ==
    /\ rotated.pc = "find"
    /\ \E files \in Arrangements(Matching(rotated.entries)) :
          LET pend == SelectSeq(files, LAMBDA rf : rf.path \notin rotated.marked)
          IN  rotated' = [rotated EXCEPT !.files = files, !.pending = pend,
                                         !.pc = IF pend = <<>> THEN "done" ELSE "file"]
    /\ UNCHANGED notRotated

\* Run, lines 395-402, and processFile, lines 520-539: the next pending file
\* is opened.
RotOpen ==
    /\ rotated.pc = "file" /\ rotated.at <= Len(rotated.pending)
    /\ rotated' = [rotated EXCEPT !.pc = "scan",
                                  !.rest = ScanFile(rotated.pending[rotated.at].path)]
    /\ UNCHANGED notRotated

\* processFile, lines 545-553: a line is enqueued.
RotSend ==
    /\ rotated.pc = "scan" /\ rotated.rest # <<>>
    /\ rotated' = [rotated EXCEPT
                     !.sent = Append(@, [path |-> rotated.pending[rotated.at].path,
                                         line |-> Head(rotated.rest)]),
                     !.rest = Tail(@)]
    /\ UNCHANGED notRotated

\* processFile, lines 566-571, and Run, lines 409-421: at the end of the file
\* it is marked imported.
RotMark ==
    /\ rotated.pc = "scan" /\ rotated.rest = <<>>
    /\ rotated' = [rotated EXCEPT
                     !.marked = @ \cup {rotated.pending[rotated.at].path},
                     !.at = @ + 1, !.pc = "file"]
    /\ UNCHANGED notRotated

\* Run, lines 424-434: after the last file the stream is closed and Run
\* returns.
RotClose ==
    /\ rotated.pc = "file" /\ rotated.at > Len(rotated.pending)
    /\ rotated' = [rotated EXCEPT !.pc = "done"]
    /\ UNCHANGED notRotated

InitRotated ==
    /\ InitFs
    /\ requests = EmptyMap
    /\ log_position = [p \in Paths |-> NoRow]
    /\ mPc = "backfill" /\ cancelled = FALSE /\ run = 1
    /\ bPc = "off" /\ BackfillOff
    /\ tPc = "off" /\ TailerOff
    /\ aPc = "off" /\ AggOff
    /\ lines = <<>> /\ closed = FALSE
    /\ emitted = <<>> /\ tick = NoTick
    /\ hist = NoHist
    /\ tables = EmptyTables /\ bufs = <<>> /\ input = <<>>
    /\ pool = {} /\ fl = <<>> /\ ret = <<>> /\ flushed = <<>> /\ parser = <<>>
    /\ \E entries \in Listings :
       \E marked \in {{}} \cup { {e.name} : e \in entries } :
          rotated = [pc |-> "find", entries |-> entries, marked |-> marked,
                     files |-> <<>>, pending |-> <<>>, at |-> 1, rest |-> <<>>,
                     sent |-> <<>>]

NextRotated == RotFind \/ RotOpen \/ RotSend \/ RotMark \/ RotClose

SpecRotated == InitRotated /\ [][NextRotated]_vars

\* The lines of the pending files 1..n in their order, each with its file.
RECURSIVE LinesOf(_, _)
LinesOf(pend, n) ==
    IF n = 0 THEN <<>>
    ELSE LinesOf(pend, n - 1) \o
         [i \in 1..LinesPerFile |-> [path |-> pend[n].path, line |-> ScanFile(pend[n].path)[i]]]

\* The lines enqueued are those of the pending files in their order, all of
\* one file before any of the next.
FileByFile ==
    /\ IsPrefix(rotated.sent, LinesOf(rotated.pending, Len(rotated.pending)))
    /\ rotated.pc = "done"
          => rotated.sent = LinesOf(rotated.pending, Len(rotated.pending))

\* C32 as stated: backfill processes the pending rotated files in strictly
\* descending N, plain and .gz alike, and enqueues all lines of one file, in
\* file order, before any line of the next.
C32_StrictlyDescending ==
    (rotated.pc # "find")
    => /\ \A i, j \in DOMAIN rotated.pending :
             i < j => rotated.pending[i].num > rotated.pending[j].num
       /\ FileByFile

\* C32, with equal N: backfill processes the pending rotated files in
\* descending N, plain and .gz alike, files of the same N (base.N next to
\* base.N.gz or base.0N) in either order, and enqueues all lines of one
\* file, in file order, before any line of the next.
C32_Descending ==
    (rotated.pc # "find")
    => /\ \A i, j \in DOMAIN rotated.pending :
             i < j => rotated.pending[i].num >= rotated.pending[j].num
       /\ \A i, j \in DOMAIN rotated.pending :
             (i < j /\ rotated.pending[i].num = rotated.pending[j].num)
                => rotated.pending[i].path # rotated.pending[j].path
       /\ FileByFile

\* Run has returned after a compressed file of the higher N and a plain file
\* of the lower N, the lines of the first enqueued before those of the second.
C32_Witness ==
    /\ rotated.pc = "done" /\ Len(rotated.pending) = 2
    /\ rotated.pending[1].path = Sibling(<<"2", GzExt>>)
    /\ rotated.pending[2].path = Sibling(<<"1">>)
    /\ Len(rotated.sent) = 2 * LinesPerFile
    /\ rotated.sent[1].path = Sibling(<<"2", GzExt>>)

(***************************************************************************)
(* The size threshold.                                                     *)
(***************************************************************************)
\* Run takes a line off the stream in this step.
TakesLine == input'.next = input.next + 1

\* C33: the Aggregator's buffered line count never exceeds the threshold.
\* It counts the entries buffered; a line is taken off the stream only with
\* the count below the threshold, and when the count reaches the threshold
\* with that line a flush takes the buffers and resets it to 0 before the
\* next line is taken.
C33_CountBelowThreshold ==
    [][/\ bufs'.bufferSize < bufferSizeThreshold
       /\ bufs'.bufferSize = Len(flushed'.cur)
       /\ TakesLine
            => /\ bufs.bufferSize < bufferSizeThreshold
               /\ IF bufs.bufferSize + 1 >= bufferSizeThreshold
                  THEN /\ bufs'.bufferSize = 0
                       /\ fl'.pc = "begin"
                       /\ fl'.swapped.bufferSize = bufferSizeThreshold
                  ELSE bufs'.bufferSize = bufs.bufferSize + 1]_vars

\* A flush that took the buffers at the threshold has committed, and the
\* count is 0.
C33_Witness ==
    /\ Len(Done) >= 1
    /\ Done[1].bufs.bufferSize = bufferSizeThreshold
    /\ bufs.bufferSize = 0
    /\ flushed.last = "committed"

(***************************************************************************)
(* The persisted offset from one save to the next.                         *)
(***************************************************************************)
\* savePosition writes the row of the active file in this step.
Saves == Row' # Row

\* C34: the persisted offset of the active file never decreases from one
\* save to the next, unless the tick that saves it detected a rotation (the
\* inode differs from the saved one) or a truncation (the size is below the
\* saved offset).
C34_OffsetMonotonic ==
    [][(Saves /\ Row # NoRow)
          => \/ Row'.offset >= Row.offset
             \/ tick.kind \in {"rotation", "truncate"}]_vars

\* A tick that resumed at the persisted offset has saved a higher one.
C34_Witness ==
    /\ tPc = "ticked" /\ tick.kind = "resume"
    /\ tick.start > 0 /\ lineCount > 0
    /\ Row.offset > tick.start /\ Row.inode = tick.ino

(***************************************************************************)
(* The persisted position and the size of the file.                        *)
(***************************************************************************)
\* C35: every position the Tailer persists for the active file has
\* offset <= size, and its offset is not larger than the number of bytes the
\* file held when the tick read it.
C35_OffsetWithinFile ==
    [][Saves => (Row'.offset <= Row'.size /\ Row'.offset <= Len(inodes[f]))]_vars

(***************************************************************************)
(* The tables counted against each other.                                  *)
(***************************************************************************)
\* The sum of the counts of the rows of m with the keys ks.
RECURSIVE SumOver(_, _)
SumOver(m, ks) ==
    IF ks = {} THEN 0
    ELSE LET k == CHOOSE x \in ks : TRUE IN m[k] + SumOver(m, ks \ {k})
\* SUM(count) of a table WHERE hour = h AND router = r.
SumCount(m, h, r) == SumOver(m, { k \in DOMAIN m : k[1] = h /\ k[2] = r })
RequestCounts == [k \in DOMAIN tables.requests |-> tables.requests[k].Count]
Hours == { HourBucket(e.Timestamp) : e \in Entries }
Routers == { router(e) : e \in Entries }

\* C36: in the store, for every (hour, router), the sums of count over
\* requests, user_agents, browsers, os_stats and duration_hist are equal, in
\* every state that flushes, committed or failed, and retention sweeps lead
\* to.
C36_TablesAgree ==
    \A h \in Hours, r \in Routers :
       LET n == SumCount(RequestCounts, h, r)
       IN  /\ SumCount(tables.user_agents, h, r) = n
           /\ SumCount(tables.browsers, h, r) = n
           /\ SumCount(tables.os_stats, h, r) = n
           /\ SumCount(tables.duration_hist, h, r) = n

\* Flushes and a sweep have committed; the store holds rows of the cutoff
\* hour and none of the hour before, of which a record was committed.
C36_Witness ==
    /\ ret.pc = "idle" /\ ret.n >= 1
    /\ \E r \in Records : \E c \in Cutoffs : HourBucket(r.e.Timestamp) < c
    /\ \A k \in DOMAIN tables.requests : k[1] \in Cutoffs
    /\ \E h \in Hours, r \in Routers : SumCount(RequestCounts, h, r) >= 1

(***************************************************************************)
(* Cleaner.Run: a sweep at the start, a sweep at every tick, until the     *)
(* context is cancelled, on a store that holds what earlier flushes have   *)
(* committed.                                                              *)
(***************************************************************************)
\* Run, lines 28-31: the sweep at the start, before the context is looked
\* at; BeginTx of cleanup.
CleanerFirst ==
    /\ ret.pc = "start" /\ connFree(pool)
    /\ \E cutoff \in Cutoffs, err \in Errs :
        /\ hist' = Fault(hist, err)
        /\ IF err
           THEN ret' = [ret EXCEPT !.pc = "idle"] /\ UNCHANGED pool
           ELSE /\ pool' = pool \cup {"cleanup"}
                /\ ret' = [pc |-> "exec", step |-> 1, cutoff |-> cutoff, work |-> Db,
                           n |-> ret.n]
    /\ UNCHANGED <<notDetail, tables, log_position, bufs, input, fl, flushed, aPc, aggErr,
                   run>>

\* Run, lines 37-39: the select takes ctx.Done and Run returns ctx.Err().
CleanerReturn ==
    /\ ret.pc = "idle" /\ cancelled
    /\ ret' = [ret EXCEPT !.pc = "returned"]
    /\ UNCHANGED <<notDetail, tables, log_position, bufs, input, pool, fl, flushed, aPc,
                   aggErr, hist, run>>

InitRetention ==
    /\ InitFs
    /\ requests = EmptyMap
    /\ log_position = [p \in Paths |-> NoRow]
    /\ mPc = "running" /\ cancelled = FALSE /\ run = 1
    /\ bPc = "off" /\ BackfillOff
    /\ tPc = "off" /\ TailerOff
    /\ aPc = "off" /\ AggOff
    /\ lines = <<>> /\ closed = FALSE
    /\ emitted = <<>> /\ tick = NoTick
    /\ hist = [NoHist EXCEPT !.faults = MaxFaults]
    /\ bufs = NewBufs(1) /\ input = [all |-> <<>>, next |-> 1]
    /\ pool = {} /\ fl = NoFlush /\ flushed = NoFlushed
    /\ parser = <<>> /\ rotated = <<>>
    /\ ret = [NoCleanup EXCEPT !.pc = "start"]
    /\ \E s \in Streams : tables = ExecFrom(EmptyTables, AccAll(NewBufs(1), s), 1)

NextRetention ==
    \/ CleanerFirst \/ CleanBegin \/ CleanExec \/ CleanCommit
    \/ Signal \/ CleanerReturn

SpecRetention == InitRetention /\ [][NextRetention]_vars

\* A statement of a sweep fails in this step.
SweepFails == ret' # ret /\ hist'.faults < hist.faults
\* Cleaner.Run returns in this step.
CleanerReturns == ret.pc # "returned" /\ ret'.pc = "returned"
\* The tables as a whole sweep with the cutoff c leaves them.
Swept(t, c) == DeleteFrom(t, c, 1)

\* C37: Cleaner.Run sweeps once at its start, whatever the context, and then
\* at every tick. A sweep that fails on any statement leaves every table as
\* it was, and Run goes back to waiting for the next tick; a sweep that
\* commits leaves the tables swept; Run returns only from waiting, with the
\* context cancelled, and never before the first sweep.
C37_SweepLoop ==
    [][/\ SweepFails
            => /\ tables' = tables /\ log_position' = log_position
               /\ ret'.pc = "idle" /\ "cleanup" \notin pool'
       /\ (ret.pc = "commit" /\ ret'.pc = "idle" /\ hist' = hist)
            => tables' = Swept(tables, ret.cutoff)
       /\ tables' # tables => (ret.pc = "commit" /\ hist' = hist)
       /\ CleanerReturns => (cancelled /\ ret.pc = "idle")
       /\ ret.pc = "start" => ret'.pc \in {"start", "exec", "idle"}]_vars

\* The sweep at the start has failed and the sweep of the next tick has
\* committed and removed rows.
C37_Witness ==
    /\ hist.faulted /\ ret.n = 1 /\ ret.pc = "idle"
    /\ \E s \in Streams :
          /\ ExecFrom(EmptyTables, AccAll(NewBufs(1), s), 1) # tables
          /\ \E c \in Cutoffs :
                tables = Swept(ExecFrom(EmptyTables, AccAll(NewBufs(1), s), 1), c)

(***************************************************************************)
(* The Aggregator on a stream of raw lines, some of which do not parse.    *)
(***************************************************************************)
\* The lines of the stream: what grammar a line follows and, for a line that
\* follows one, the fields it carries.
RawLines ==
    {[kind |-> "junk"]} \cup
    { [kind |-> k, e |-> e] :
        k \in {"traefik", "combined"},
        e \in {[Entry EXCEPT !.Referer = "https://ref.example/x"],
               [Entry EXCEPT !.Timestamp = "11:05"]} }
RawStreams == UNION { [1..n -> RawLines] : n \in 0..MaxLines }

\* Parser.ParseLine on a line of the stream: the entry (a Combined parse
\* yields no router), or the error.
ParseRaw(format, line) ==
    LET with == ParserParseLine(format, line.kind)
    IN  [ok |-> with # "error",
         entry |-> IF with = "error" THEN Entry
                   ELSE IF with = "traefik" THEN line.e
                   ELSE [line.e EXCEPT !.Router = ""]]

\* Run with a line that fails to parse ending the loop.
AggSkipLineStopping ==
    /\ aPc = "run" /\ fl.pc = "off" /\ input.next <= Len(input.all)
    /\ ~ParseRaw(parser.format, input.all[input.next]).ok
    /\ input' = [input EXCEPT !.next = @ + 1]
    /\ aPc' = "done" /\ aggErr' = "err"
    /\ UNCHANGED <<notDetail, tables, log_position, pool, ret, bufs, fl, flushed,
                   hist, run>>

\* Run, lines 165 and 175-180: a line is received and fails to parse; it is
\* logged and the loop continues.
AggSkipLine ==
    /\ aPc = "run" /\ fl.pc = "off" /\ input.next <= Len(input.all)
    /\ ~ParseRaw(parser.format, input.all[input.next]).ok
    /\ input' = [input EXCEPT !.next = @ + 1]
    /\ UNCHANGED <<notDetail, tables, log_position, pool, ret, aPc, aggErr, bufs, fl,
                   flushed, hist, run>>

\* Run, lines 165 and 175-195: a line is received and parses; the entry is
\* accumulated, and at the threshold the buffers are flushed.
AggTakeLine ==
    /\ aPc = "run" /\ fl.pc = "off" /\ input.next <= Len(input.all)
    /\ ParseRaw(parser.format, input.all[input.next]).ok
    /\ LET e == ParseRaw(parser.format, input.all[input.next]).entry
           b == accumulateEntry(bufs, e)
           g == [flushed EXCEPT !.cur = Append(@, e), !.last = "none"]
       IN  /\ input' = [input EXCEPT !.next = @ + 1]
           /\ IF b.bufferSize >= bufferSizeThreshold
              THEN Swap(b, g)
              ELSE bufs' = b /\ fl' = fl /\ flushed' = g
    /\ UNCHANGED <<notDetail, tables, log_position, pool, ret, aPc, aggErr, hist, run>>

InitSkip ==
    /\ InitFs
    /\ requests = EmptyMap
    /\ log_position = [p \in Paths |-> NoRow]
    /\ mPc = "running" /\ cancelled = FALSE /\ run = 1
    /\ bPc = "off" /\ BackfillOff
    /\ tPc = "off" /\ TailerOff
    /\ aPc = "run" /\ AggOff
    /\ lines = <<>> /\ closed = FALSE
    /\ emitted = <<>> /\ tick = NoTick
    /\ hist = [NoHist EXCEPT !.faults = MaxFaults]
    /\ tables = EmptyTables /\ bufs = NewBufs(1)
    /\ pool = {} /\ fl = NoFlush /\ ret = NoCleanup /\ flushed = NoFlushed
    /\ rotated = <<>>
    /\ \E format \in {"traefik", "combined"} :
          parser = [pc |-> "started", cfg |-> format,
                    log |-> [readable |-> FALSE, lines |-> <<>>],
                    format |-> format, chosen |-> format, parsed |-> <<>>]
    /\ \E s \in RawStreams : input = [all |-> s, next |-> 1]

NextSkip ==
    \/ AggSkipLine \/ AggTakeLine \/ AggFlushTick
    \/ FlushBegin \/ FlushExec \/ FlushCommit

SpecSkip == InitSkip /\ [][NextSkip]_vars

\* The entries of the lines ls that parse, in order.
RECURSIVE ParsedOf(_, _)
ParsedOf(format, ls) ==
    IF ls = <<>> THEN <<>>
    ELSE (IF ParseRaw(format, Head(ls)).ok THEN <<ParseRaw(format, Head(ls)).entry>>
          ELSE <<>>) \o ParsedOf(format, Tail(ls))
\* Run takes a line that fails to parse in this step.
SkipsLine ==
    /\ input'.next = input.next + 1
    /\ ~ParseRaw(parser.format, input.all[input.next]).ok

\* C38: a line that fails to parse changes none of the Aggregator's buffers
\* nor its buffered line count, causes no store write, and does not stop
\* Run: with no flush failing, the entries committed, in flight and buffered
\* are those of all the lines taken that parse, the ones after a line that
\* failed included.
C38_BadLineDropped ==
    [][/\ SkipsLine
            => /\ bufs' = bufs /\ flushed' = flushed
               /\ fl' = fl /\ pool' = pool
               /\ tables' = tables /\ log_position' = log_position
               /\ aPc' = "run" /\ aggErr' = aggErr
       /\ ~hist'.faulted
            => /\ aPc' = "run"
               /\ DoneEntries' \o flushed'.out \o flushed'.cur
                     = ParsedOf(parser.format, Take(input'.all, input'.next - 1))]_vars

\* A line that failed to parse was taken, and the entry of the line after it
\* has been committed.
C38_Witness ==
    /\ input.next = 3
    /\ ~ParseRaw(parser.format, input.all[1]).ok
    /\ ParseRaw(parser.format, input.all[2]).ok
    /\ DoneEntries = <<ParseRaw(parser.format, input.all[2]).entry>>
    /\ aPc = "run"

(***************************************************************************)
(* The position store: loadPosition and savePosition as the statements     *)
(* they send, on the rows of the table log_position.                       *)
(***************************************************************************)
\* The values of the columns offset, inode and size in this section.
PosVals == {0, 1}
PosRow(file, offset, inode, size) ==
    [file |-> file, offset |-> offset, inode |-> inode, size |-> size]

\* SELECT offset, inode, size FROM log_position WHERE file = ?
SelectPosition(rows, file) == { r \in rows : r.file = file }
\* loadPosition, lines 165-175: QueryRow and Scan; sql.ErrNoRows gives zeros
\* and no error.
loadPositionRows(rows, path) ==
    IF SelectPosition(rows, path) = {}
    THEN [offset |-> 0, inode |-> 0, size |-> 0, err |-> "nil"]
    ELSE LET r == CHOOSE x \in SelectPosition(rows, path) : TRUE
         IN  [offset |-> r.offset, inode |-> r.inode, size |-> r.size, err |-> "nil"]

\* An INSERT without its ON CONFLICT clause, on a table without the key.
InsertPlain(rows, row) == rows \cup {row}
\* savePosition, lines 179-187: INSERT ... ON CONFLICT(file) DO UPDATE SET
\* offset, inode, size = excluded's, file being the primary key.
InsertOnConflict(rows, row) ==
    IF \E r \in rows : r.file = row.file
    THEN { IF r.file = row.file
           THEN [r EXCEPT !.offset = row.offset, !.inode = row.inode, !.size = row.size]
           ELSE r : r \in rows }
    ELSE rows \cup {row}

notPosition == <<fsVars, requests, mainVars, bfVars, tailerVars, aggVars, chanVars,
                 histVars, bufs, input, pool, fl, ret, parser, rotated>>

\* savePosition(path, offset, inode, size) is called; tables holds the rows,
\* log_position the same table as a function of the path, flushed the call.
PosSave ==
    /\ \E path \in Paths, offset \in PosVals, inode \in PosVals, size \in PosVals :
        /\ tables' = [tables EXCEPT !.log_position =
                         InsertOnConflict(@, PosRow(path, offset, inode, size))]
        /\ log_position' = savePosition(log_position, path, offset, inode, size)
        /\ flushed' = [call |-> "save", args |-> PosRow(path, offset, inode, size),
                       got |-> Zeros]
    /\ UNCHANGED notPosition

\* loadPosition(path) is called.
PosLoad ==
    /\ \E path \in Paths :
          flushed' = [call |-> "load", args |-> PosRow(path, 0, 0, 0),
                      got |-> loadPositionRows(tables.log_position, path)]
    /\ UNCHANGED <<notPosition, tables, log_position>>

InitPosition ==
    /\ InitFs
    /\ requests = EmptyMap
    /\ log_position = [p \in Paths |-> NoRow]
    /\ mPc = "running" /\ cancelled = FALSE /\ run = 1
    /\ bPc = "off" /\ BackfillOff
    /\ tPc = "off" /\ TailerOff
    /\ aPc = "off" /\ AggOff
    /\ lines = <<>> /\ closed = FALSE
    /\ emitted = <<>> /\ tick = NoTick
    /\ hist = NoHist
    /\ bufs = <<>> /\ input = <<>>
    /\ pool = {} /\ fl = <<>> /\ ret = <<>> /\ parser = <<>> /\ rotated = <<>>
    /\ tables = [log_position |-> {}]
    /\ flushed = [call |-> "none", args |-> PosRow(ActivePath, 0, 0, 0), got |-> Zeros]

NextPosition == PosSave \/ PosLoad

SpecPosition == InitPosition /\ [][NextPosition]_vars

\* The columns of a result or a row.
Columns(r) == <<r.offset, r.inode, r.size>>

\* C39: the position store round trip. loadPosition returns (0, 0, 0) and no
\* error for a file that has no row; after savePosition(f, o, i, s),
\* loadPosition(f) returns (o, i, s); saves for f keep a single row for it
\* with the last values and leave the rows of the other files as they were.
\* The table as a function of the path, as the other sections hold it, is
\* the same table.
C39_RoundTrip ==
    [][/\ flushed'.call = "load"
            => /\ flushed'.got.err = "nil"
               /\ SelectPosition(tables.log_position, flushed'.args.file) = {}
                     => Columns(flushed'.got) = <<0, 0, 0>>
               /\ tables' = tables
       /\ flushed'.call = "save"
            => /\ Columns(loadPositionRows(tables'.log_position, flushed'.args.file))
                     = Columns(flushed'.args)
               /\ SelectPosition(tables'.log_position, flushed'.args.file)
                     = {flushed'.args}
               /\ \A p \in Paths \ {flushed'.args.file} :
                     SelectPosition(tables'.log_position, p)
                        = SelectPosition(tables.log_position, p)
       /\ \A p \in Paths :
             /\ Cardinality(SelectPosition(tables'.log_position, p)) <= 1
             /\ Columns(loadPosition(log_position', p))
                   = Columns(loadPositionRows(tables'.log_position, p))]_vars

\* A second save for a file has replaced its values, next to the row of
\* another file, and a load has returned them.
C39_Witness ==
    /\ flushed.call = "load" /\ flushed.args.file = ActivePath
    /\ Columns(flushed.got) = <<1, 0, 1>>
    /\ Cardinality(tables.log_position) = 2
    /\ log_position[ActivePath] = [offset |-> 1, inode |-> 0, size |-> 1]

(***************************************************************************)
(* The router column of the aggregate tables.                              *)
(***************************************************************************)
\* The router columns of the rows of the tables of t: the second component
\* of every key.
RouterColumn(t) ==
    { k[2] : k \in DOMAIN t.requests } \cup { k[2] : k \in t.visitors }
       \cup { k[2] : k \in DOMAIN t.referrers } \cup { k[2] : k \in DOMAIN t.user_agents }
       \cup { k[2] : k \in DOMAIN t.countries } \cup { k[2] : k \in DOMAIN t.browsers }
       \cup { k[2] : k \in DOMAIN t.os_stats } \cup { k[2] : k \in DOMAIN t.duration_hist }

\* C40: no row of any aggregate table has an empty router, and a committed
\* record whose parsed router is empty has its rows under "unrouted": its
\* requests row of its path, its user_agents, browsers, os_stats and
\* duration_hist rows of its classes, and its referrers and countries rows
\* when it has a referrer domain and a country.
C40_NoEmptyRouter ==
    /\ "" \notin RouterColumn(tables)
    /\ \A i \in DOMAIN DoneEntries :
          LET e == DoneEntries[i]
              h == HourBucket(e.Timestamp)
          IN  e.Router = "" =>
                /\ <<h, "unrouted", e.Path>> \in DOMAIN tables.requests
                /\ <<h, "unrouted", ClassifyUA(e.UserAgent)>> \in DOMAIN tables.user_agents
                /\ <<h, "unrouted", ClassifyBrowser(e.UserAgent)>> \in DOMAIN tables.browsers
                /\ <<h, "unrouted", ClassifyOS(e.UserAgent)>> \in DOMAIN tables.os_stats
                /\ <<h, "unrouted", durationBucket(e.DurationMs)>>
                      \in DOMAIN tables.duration_hist
                /\ extractDomain(e.Referer) # ""
                      => <<h, "unrouted", extractDomain(e.Referer)>>
                            \in DOMAIN tables.referrers
                /\ (geoReader /\ lookupCountry(e.IP) # "")
                      => <<h, "unrouted", lookupCountry(e.IP)>> \in DOMAIN tables.countries

\* A flush has committed a record without a router next to one with a
\* router: the store has rows under "unrouted" and rows under the router.
C40_Witness ==
    /\ \E i \in DOMAIN DoneEntries : DoneEntries[i].Router = ""
    /\ \E i \in DOMAIN DoneEntries : DoneEntries[i].Router = "web"
    /\ \E k \in DOMAIN tables.requests : k[2] = "unrouted" /\ tables.requests[k].Count = 1
    /\ \E k \in DOMAIN tables.requests : k[2] = "web"
    /\ RouterColumn(tables) = {"unrouted", "web"}

====
